---- MODULE Spec2Model ----
(***************************************************************************)
(* Model of the Kiket Go SDK: the webhook authenticator                    *)
(* (kiket/auth.go), the webhook dispatch built on it (kiket/sdk.go) and    *)
(* the local Merkle proof verifier of the audit client.                    *)
(*                                                                         *)
(* Strings are records [mac, lit]: lit is a sequence of one-character      *)
(* strings, and a non-empty mac <<key, msg>> stands for the 64 hex         *)
(* characters of HMAC-SHA256(key, msg) in front of lit.  Two such strings  *)
(* are equal exactly when key, msg and lit are equal, which is the         *)
(* collision-freedom of HMAC-SHA256.                                       *)
(***************************************************************************)
EXTENDS Integers, Sequences, FiniteSets, TLC

VARIABLES now, config, fixture, handlers, call, threads, handlersMu, service

vars == <<now, config, fixture, handlers, call, threads, handlersMu, service>>

----------------------------------------------------------------------------
(* Bounds of the model *)

\* width of the signed integers standing for Go's int64
IntBits == 12
\* the clock reading of the initial state (Unix seconds)
Epoch == 1000
\* the freshness window in seconds
Window == 300

MinInt == -(2 ^ (IntBits - 1))
MaxInt == (2 ^ (IntBits - 1)) - 1

\* two's-complement wrap-around of int64 arithmetic
Wrap(x) == ((x - MinInt) % (2 ^ IntBits)) + MinInt

\* the calls running concurrently, where a specification has any
NoThreads == <<>>

\* SDK.handlersMu, a sync.RWMutex: whether a writer holds it, and the
\* readers that hold it
Unlocked == [writer |-> 0, readers |-> {}]

\* the service the SDK's client talks to, where a specification has one
NoService == <<>>

----------------------------------------------------------------------------
(* Strings *)

Lit(chars) == [mac |-> <<>>, lit |-> chars]

EmptyString == Lit(<<>>)

\* s + t for a literal t
Concat(s, t) == [mac |-> s.mac, lit |-> s.lit \o t.lit]

Digit == <<"0", "1", "2", "3", "4", "5", "6", "7", "8", "9">>

IsDigit(c) == \E i \in 1..10 : Digit[i] = c

DigitVal(c) == (CHOOSE i \in 1..10 : Digit[i] = c) - 1

RECURSIVE FormatUint(_)
FormatUint(n) ==
    IF n < 10 THEN <<Digit[n + 1]>>
    ELSE FormatUint(n \div 10) \o <<Digit[(n % 10) + 1]>>

\* strconv.FormatInt(n, 10)
FormatInt(n) ==
    Lit(IF n < 0 THEN <<"-">> \o FormatUint(0 - n) ELSE FormatUint(n))

RECURSIVE UintValue(_)
UintValue(ds) ==
    IF ds = <<>> THEN 0
    ELSE 10 * UintValue(SubSeq(ds, 1, Len(ds) - 1)) + DigitVal(ds[Len(ds)])

\* strconv.ParseInt(s, 10, 64): an optional sign, then one or more decimal
\* digits, the value in the range of the integer type
ParseInt(s) ==
    LET signed == s.lit # <<>> /\ s.lit[1] \in {"+", "-"}
        neg    == s.lit # <<>> /\ s.lit[1] = "-"
        ds     == IF signed THEN Tail(s.lit) ELSE s.lit
        syntax == s.mac = <<>> /\ ds # <<>> /\ \A i \in 1..Len(ds) : IsDigit(ds[i])
        v      == IF neg THEN 0 - UintValue(ds) ELSE UintValue(ds)
    IN  IF syntax /\ v >= MinInt /\ v <= MaxInt
        THEN [ok |-> TRUE, val |-> v]
        ELSE [ok |-> FALSE, val |-> 0]

----------------------------------------------------------------------------
(* Errors *)

NoError == [type |-> "nil", Message |-> "", arg |-> 0, wraps |-> "nil"]

\* the empty-secret failure given a type of its own
ErrorTypedByKind(msg, n) ==
    [type |-> IF msg = "webhook secret not configured"
              THEN "ConfigurationError" ELSE "AuthenticationError",
     Message |-> msg, arg |-> n, wraps |-> "nil"]

AuthenticationError(msg, n) ==
    [type |-> "AuthenticationError", Message |-> msg, arg |-> n, wraps |-> "nil"]

\* errors.As(err, *AuthenticationError): the error or one it wraps
IsAuthenticationError(err) ==
    err.type = "AuthenticationError" \/ err.wraps = "AuthenticationError"

----------------------------------------------------------------------------
(* kiket/auth.go *)

\* headers[name]: the entry, or "" when the map has none
Get(headers, name) ==
    IF name \in DOMAIN headers THEN headers[name] ELSE EmptyString

\* the all-lowercase entry preferred
HeaderValueLowercaseFirst(headers, canonical, lowercase) ==
    IF Get(headers, lowercase) # EmptyString
    THEN Get(headers, lowercase)
    ELSE Get(headers, canonical)

\* the canonical entry, the all-lowercase entry when that one is ""
HeaderValue(headers, canonical, lowercase) ==
    IF Get(headers, canonical) # EmptyString
    THEN Get(headers, canonical)
    ELSE Get(headers, lowercase)

\* hex.EncodeToString(HMAC-SHA256(secret, payload))
HmacSha256Hex(secret, payload) == [mac |-> <<secret, payload>>, lit |-> <<>>]

\* the body left out of what is signed
SignedPayloadWithoutBody(timestamp, body) == Concat(timestamp, Lit(<<".">>))

\* timestamp + "." + body
SignedPayload(timestamp, body) == Concat(Concat(timestamp, Lit(<<".">>)), body)

\* subtle.ConstantTimeCompare(x, y) = 1
ConstantTimeCompare(x, y) == x = y

\* the bits of a float64's significand, as many less than the integer's
\* width that the window is exact and the widest integers are not
FloatBits == IntBits - 3

\* float64(n) of an integer n >= 0: the nearest number with FloatBits
\* significant bits, a tie going to the even one
Float64(n) ==
    LET k  == CHOOSE i \in 0..IntBits :
                  /\ n < 2 ^ (FloatBits + i)
                  /\ \A j \in 0..IntBits : n < 2 ^ (FloatBits + j) => i <= j
        q  == 2 ^ k
        r  == n % q
        lo == n - r
    IN  IF 2 * r > q \/ (2 * r = q /\ (lo \div q) % 2 = 1) THEN lo + q ELSE lo

\* math.Abs(float64(now - requestTime)), the subtraction in int64
TimeDiff(clock, requestTime) ==
    LET d == Wrap(clock - requestTime) IN Float64(IF d < 0 THEN 0 - d ELSE d)

\* the edge of the window rejected
TooOldAtEdge(timeDiff) == timeDiff >= Window

\* timeDiff > 300
TooOld(timeDiff) == timeDiff > Window

\* the headers looked at before the secret
VerifySignatureHeadersFirst(secret, body, headers, clock) ==
    LET signature == HeaderValue(headers, "X-Kiket-Signature", "x-kiket-signature")
        timestamp == HeaderValue(headers, "X-Kiket-Timestamp", "x-kiket-timestamp")
        parsed    == ParseInt(timestamp)
        timeDiff  == TimeDiff(clock, parsed.val)
        expected  == HmacSha256Hex(secret, SignedPayload(timestamp, body))
    IN  IF signature = EmptyString
        THEN AuthenticationError("missing X-Kiket-Signature header", 0)
        ELSE IF timestamp = EmptyString
        THEN AuthenticationError("missing X-Kiket-Timestamp header", 0)
        ELSE IF secret = ""
        THEN AuthenticationError("webhook secret not configured", 0)
        ELSE IF ~parsed.ok
        THEN AuthenticationError("invalid X-Kiket-Timestamp header", 0)
        ELSE IF TooOld(timeDiff)
        THEN AuthenticationError(
                 "request timestamp too old or too far in future: %.0fs", timeDiff)
        ELSE IF ~ConstantTimeCompare(signature, expected)
        THEN AuthenticationError("invalid signature", 0)
        ELSE NoError

VerifySignature(secret, body, headers, clock) ==
    LET signature == HeaderValue(headers, "X-Kiket-Signature", "x-kiket-signature")
        timestamp == HeaderValue(headers, "X-Kiket-Timestamp", "x-kiket-timestamp")
        parsed    == ParseInt(timestamp)
        timeDiff  == TimeDiff(clock, parsed.val)
        expected  == HmacSha256Hex(secret, SignedPayload(timestamp, body))
    IN  IF secret = ""
        THEN AuthenticationError("webhook secret not configured", 0)
        ELSE IF signature = EmptyString
        THEN AuthenticationError("missing X-Kiket-Signature header", 0)
        ELSE IF timestamp = EmptyString
        THEN AuthenticationError("missing X-Kiket-Timestamp header", 0)
        ELSE IF ~parsed.ok
        THEN AuthenticationError("invalid X-Kiket-Timestamp header", 0)
        ELSE IF TooOld(timeDiff)
        THEN AuthenticationError(
                 "request timestamp too old or too far in future: %.0fs", timeDiff)
        ELSE IF ~ConstantTimeCompare(signature, expected)
        THEN AuthenticationError("invalid signature", 0)
        ELSE NoError

\* a *int64 argument: nil, or a pointer to val
NilTimestamp == [set |-> FALSE, val |-> 0]

Timestamp(t) == [set |-> TRUE, val |-> t]

\* the separator left out of the signed message
GenerateSignatureNoSeparator(secret, body, timestamp, clock) ==
    LET tsVal == IF timestamp.set THEN timestamp.val ELSE clock
        tsStr == FormatInt(tsVal)
    IN  [signature |-> HmacSha256Hex(secret, Concat(tsStr, body)),
         ts        |-> tsStr]

GenerateSignature(secret, body, timestamp, clock) ==
    LET tsVal == IF timestamp.set THEN timestamp.val ELSE clock
        tsStr == FormatInt(tsVal)
    IN  [signature |-> HmacSha256Hex(secret, SignedPayload(tsStr, body)),
         ts        |-> tsStr]

----------------------------------------------------------------------------
(* Inputs of the webhook authenticator *)

Secrets == {"", "s3cr3t", "0ther"}

\* the secrets GenerateSignature is called with
GenSecrets == {"", "s3cr3t"}

\* request bodies: an empty JSON object, and bytes that are no JSON
BodyEmptyObject == Lit(<<"{", "}">>)

BodyNotJSON == Lit(<<"{", "x">>)

AuthBodies == {BodyEmptyObject, BodyNotJSON}

\* timestamps handed to GenerateSignature: none, the initial clock reading,
\* one ahead of every clock reading by at least the window, and the ends of the integer range
GenTimestamps ==
    {NilTimestamp} \cup
    {Timestamp(t) : t \in {Epoch, Epoch + 2 * Window + 1, MinInt, MaxInt}}

\* the clock readings of a behaviour
ClockReadings == {Epoch + d : d \in {0, 1, Window, Window + 1}}

NoFixture ==
    [set |-> FALSE, secret |-> "", body |-> EmptyString, timestamp |-> NilTimestamp,
     at |-> 0, signature |-> EmptyString, ts |-> EmptyString]

\* a header of the request: absent (no value), or present with one value
Absent == {}

Present(v) == {v}

MakeHeaders(sigC, sigL, tsC, tsL) ==
    LET choice == [n \in {"X-Kiket-Signature", "x-kiket-signature",
                          "X-Kiket-Timestamp", "x-kiket-timestamp"} |->
                     CASE n = "X-Kiket-Signature" -> sigC
                       [] n = "x-kiket-signature" -> sigL
                       [] n = "X-Kiket-Timestamp" -> tsC
                       [] OTHER                   -> tsL]
    IN  [n \in {m \in DOMAIN choice : choice[m] # Absent} |->
            CHOOSE v \in choice[n] : TRUE]

\* a signature that no key produces
JunkSignature == Lit(<<"z", "z">>)

\* the signature with its last character replaced
Flipped(sig) == [mac |-> sig.mac, lit |-> sig.lit \o <<"^">>]

SignatureChoices(f) ==
    {Absent, Present(EmptyString), Present(JunkSignature)} \cup
    (IF f.set THEN {Present(f.signature), Present(Flipped(f.signature))} ELSE {})

\* no integer, and an integer out of the range of the integer type
MalformedTimestamps ==
    {Lit(<<"1", "x">>), Lit(<<"9", "9", "9", "9", "9", "9">>)}

TimestampChoices(f) ==
    {Absent, Present(EmptyString)} \cup
    {Present(m) : m \in MalformedTimestamps} \cup
    (IF f.set THEN {Present(f.ts), Present(Lit(<<"0">> \o f.ts.lit))} ELSE {})

\* the all-lowercase entries: absent, unusable, or the built ones
LowercaseSignatureChoices(f) ==
    {Absent, Present(JunkSignature)} \cup
    (IF f.set THEN {Present(f.signature)} ELSE {})

LowercaseTimestampChoices(f) ==
    {Absent, Present(Lit(<<"1", "x">>))} \cup (IF f.set THEN {Present(f.ts)} ELSE {})

----------------------------------------------------------------------------
(* The authenticator's operations *)

Init ==
    /\ now = Epoch
    /\ config = [WebhookSecret |-> ""]
    /\ fixture = NoFixture
    /\ handlers = <<>>
    /\ call = [op |-> "none"]
    /\ threads = NoThreads
    /\ handlersMu = Unlocked
    /\ service = NoService

\* no call is in progress: the last one has returned
Idle == call.op = "none"

\* a call of the audit client waits for the audit service
Waiting == call.op = "AuditClient" /\ call.state = "waiting"

\* the caller has taken the result of its call
Return ==
    /\ ~Idle
    /\ ~Waiting
    /\ call' = [op |-> "none"]
    /\ UNCHANGED <<now, config, fixture, handlers, threads, handlersMu, service>>

\* the wall clock advances
Tick ==
    \E later \in ClockReadings :
        /\ Idle
        /\ later > now
        /\ now' = later
        /\ UNCHANGED <<config, fixture, handlers, call, threads, handlersMu, service>>

\* a test builds a signed request with GenerateSignature; at is the clock
\* reading GenerateSignature took, if it took one
Generate ==
    \E secret \in GenSecrets, timestamp \in GenTimestamps :
        LET body == BodyEmptyObject
            out  == GenerateSignature(secret, body, timestamp, now)
        IN  /\ Idle
            /\ fixture' = [set |-> TRUE, secret |-> secret, body |-> body,
                           timestamp |-> timestamp,
                           at |-> IF timestamp.set THEN 0 ELSE now,
                           signature |-> out.signature, ts |-> out.ts]
            /\ call' = [op |-> "GenerateSignature"]
            /\ UNCHANGED <<now, config, handlers, threads, handlersMu, service>>

\* a caller verifies a request: the built one, or one altered on the way
Verify ==
    \E secret \in Secrets, body \in AuthBodies,
       sigC \in SignatureChoices(fixture), sigL \in LowercaseSignatureChoices(fixture),
       tsC \in TimestampChoices(fixture), tsL \in LowercaseTimestampChoices(fixture) :
        LET headers == MakeHeaders(sigC, sigL, tsC, tsL)
        IN  /\ Idle
            /\ call' = [op |-> "VerifySignature", secret |-> secret, body |-> body,
                        headers |-> headers, clock |-> now,
                        err |-> VerifySignature(secret, body, headers, now)]
            /\ UNCHANGED <<now, config, fixture, handlers, threads, handlersMu, service>>

Next == Tick \/ Generate \/ Verify \/ Return

Spec == Init /\ [][Next]_vars

----------------------------------------------------------------------------
(* kiket/sdk.go: the handler registry and the webhook dispatch *)

\* the characters of a string joined into one
RECURSIVE Join(_)
Join(cs) == IF cs = <<>> THEN "" ELSE Head(cs) \o Join(Tail(cs))

\* the registrations the registry may hold in a behaviour
MaxHandlers == 2

NilHandler == [Event |-> "", Version |-> "", Handler |-> "nil"]

\* event + ":" + version
HandlerKey(event, version) == event \o ":" \o version

\* SDK.On(event, handler, versions...): the registry after the call
On(registry, event, handler, versions) ==
    LET version == IF Len(versions) > 0 THEN versions[1] ELSE "v1"
        key     == HandlerKey(event, version)
        meta    == [Event |-> event, Version |-> version, Handler |-> handler]
    IN  [k \in DOMAIN registry \cup {key} |-> IF k = key THEN meta ELSE registry[k]]

\* SDK.GetHandler(event, version)
GetHandler(registry, event, version) ==
    LET key == HandlerKey(event, version)
    IN  IF key \in DOMAIN registry THEN registry[key] ELSE NilHandler

\* the JSON text of a string
JSONString(str) == "\"" \o str \o "\""

\* the event names bodies carry and handlers are registered for
EventNames == {"a", "a:b"}

\* json.Unmarshal(body, &payload) into a map: null, an empty object, or an
\* object with the one member "event"
Unmarshal(body) ==
    LET t == body.lit
    IN  IF body.mac = <<>> /\ t = <<"null">>
        THEN [ok |-> TRUE, payload |-> [event |-> ""]]
        ELSE IF body.mac = <<>> /\ t = <<"{", "}">>
        THEN [ok |-> TRUE, payload |-> [event |-> ""]]
        ELSE IF /\ body.mac = <<>> /\ Len(t) = 5
                /\ t[1] = "{" /\ t[2] = "\"event\"" /\ t[3] = ":" /\ t[5] = "}"
                /\ (t[4] = "5" \/ \E e \in EventNames : t[4] = JSONString(e))
        THEN [ok |-> TRUE, payload |-> [event |-> t[4]]]
        ELSE [ok |-> FALSE, payload |-> [event |-> ""]]

\* payload["event"].(string): the member when it is a string, "" otherwise
EventOf(payload) ==
    IF \E e \in EventNames : payload.event = JSONString(e)
    THEN CHOOSE e \in EventNames : payload.event = JSONString(e)
    ELSE ""

\* the event version of a request: canonical header, lowercase header, "v1"
VersionOf(headers) ==
    LET v == HeaderValue(headers, "X-Kiket-Event-Version", "x-kiket-event-version")
    IN  IF v = EmptyString THEN "v1" ELSE Join(v.lit)

ParseError ==
    [type |-> "*fmt.wrapError", Message |-> "failed to parse webhook payload: %w",
     arg |-> 0, wraps |-> "*json.SyntaxError"]

NoHandlerError ==
    [type |-> "*errors.errorString",
     Message |-> "no handler registered for event %s (version %s)",
     arg |-> 0, wraps |-> "nil"]

\* what a handler returns: a result (nil, a value with a JSON encoding, or
\* a value encoding/json rejects) and an error
NilResult == "nil"

HandlerFailed ==
    [type |-> "*errors.errorString", Message |-> "handler failed", arg |-> 0,
     wraps |-> "nil"]

HandlerOutcomes ==
    {[result |-> r, err |-> NoError] : r \in {NilResult, "value", "chan"}} \cup
    {[result |-> r, err |-> e] :
        r \in {NilResult, "value"},
        e \in {HandlerFailed, AuthenticationError("denied by handler", 0)}}

\* a URL is the sequence of its parts: a base, then path segments, "/"
\* being a trailing slash; the model's telemetry URLs
NoURL == <<>>

\* strings.ToLower on the values the environment variable takes
ToLower(str) == IF str = "TRUE" THEN "true" ELSE str

\* WithTelemetryEndpoint(url) applied to a reporter: a trailing slash
\* trimmed and "/telemetry" appended unless the URL ends with it
WithTelemetryEndpoint(r, url) ==
    IF url = NoURL THEN r
    ELSE LET trimmed == IF url[Len(url)] = "/" THEN SubSeq(url, 1, Len(url) - 1) ELSE url
             full    == IF trimmed # <<>> /\ trimmed[Len(trimmed)] = "/telemetry"
                        THEN trimmed ELSE trimmed \o <<"/telemetry">>
         IN  [r EXCEPT !.endpoint = full]

\* the opt-out variable not looked at
NewTelemetryReporterIgnoringOptOut(enabled, optOut, telemetryURL) ==
    LET r == [enabled |-> enabled, endpoint |-> NoURL]
    IN  IF telemetryURL # NoURL THEN WithTelemetryEndpoint(r, telemetryURL) ELSE r

\* NewTelemetryReporter(enabled, opts...) as New calls it; optOut is the
\* value of KIKET_SDK_TELEMETRY_OPTOUT at that time
NewTelemetryReporter(enabled, optOut, telemetryURL) ==
    LET r == [enabled |-> IF ToLower(optOut) = "1" THEN FALSE ELSE enabled,
              endpoint |-> NoURL]
    IN  IF telemetryURL # NoURL THEN WithTelemetryEndpoint(r, telemetryURL) ELSE r

\* http.NewRequestWithContext rejects a URL it cannot parse
ValidURL(url) == url # <<>> /\ url[1] # "%zz"

RequestError ==
    [type |-> "*url.Error", Message |-> "parse %q: invalid URL escape", arg |-> 0,
     wraps |-> "url.EscapeError"]

TransportFailed ==
    [type |-> "*url.Error", Message |-> "Post %q: dial tcp: connection refused",
     arg |-> 0, wraps |-> "*net.OpError"]

\* a failure of the transport returned to the caller
RecordSurfacingFailure(r, record, transport) ==
    IF ~r.enabled \/ r.endpoint = NoURL THEN [err |-> NoError, requests |-> <<>>]
    ELSE IF ~ValidURL(r.endpoint) THEN [err |-> RequestError, requests |-> <<>>]
    ELSE [err |-> IF transport = "failed" THEN TransportFailed ELSE NoError,
          requests |-> <<[method |-> "POST", url |-> r.endpoint, body |-> record]>>]

\* TelemetryReporter.Record: the error it returns and the requests it
\* sends; transport is what becomes of a request ("delivered" or "failed")
Record(r, record, transport) ==
    IF ~r.enabled \/ r.endpoint = NoURL THEN [err |-> NoError, requests |-> <<>>]
    ELSE IF ~ValidURL(r.endpoint) THEN [err |-> RequestError, requests |-> <<>>]
    ELSE [err |-> NoError,
          requests |-> <<[method |-> "POST", url |-> r.endpoint, body |-> record]>>]

\* the steps of HandleWebhook, in the order of its code
HandleWebhookSteps == <<"verify", "parse", "lookup", "invoke", "record">>

\* the handler run without the signature being verified
HandleWebhookUnverified(cfg, registry, body, headers, clock, outcome, transport) ==
    LET parsed   == Unmarshal(body)
        event    == EventOf(parsed.payload)
        version  == VersionOf(headers)
        handler  == GetHandler(registry, event, version)
        stopped(e, n) == [result |-> NilResult, err |-> e, invoked |-> <<>>,
                          telemetry |-> <<>>, requests |-> <<>>,
                          steps |-> SubSeq(HandleWebhookSteps, 1, n)]
        record   == [event   |-> event,
                     version |-> version,
                     status  |-> IF outcome.err # NoError THEN "error" ELSE "ok",
                     errorMessage |-> outcome.err.Message]
    IN  IF ~parsed.ok THEN stopped(ParseError, 2)
        ELSE IF handler = NilHandler THEN stopped(NoHandlerError, 3)
        ELSE [result    |-> outcome.result,
              err       |-> outcome.err,
              invoked   |-> <<handler.Handler>>,
              telemetry |-> <<record>>,
              requests  |-> Record(cfg.telemetry, record, transport).requests,
              steps     |-> HandleWebhookSteps]

\* telemetry recorded also when no handler is registered
HandleWebhookRecordingLookupFailure(cfg, registry, body, headers, clock, outcome, transport) ==
    LET verr     == VerifySignature(cfg.WebhookSecret, body, headers, clock)
        parsed   == Unmarshal(body)
        event    == EventOf(parsed.payload)
        version  == VersionOf(headers)
        handler  == GetHandler(registry, event, version)
        stopped(e, n) == [result |-> NilResult, err |-> e, invoked |-> <<>>,
                          telemetry |-> <<>>, requests |-> <<>>,
                          steps |-> SubSeq(HandleWebhookSteps, 1, n)]
        record   == [event   |-> event,
                     version |-> version,
                     status  |-> IF outcome.err # NoError THEN "error" ELSE "ok",
                     errorMessage |-> outcome.err.Message]
    IN  IF verr # NoError THEN stopped(verr, 1)
        ELSE IF ~parsed.ok THEN stopped(ParseError, 2)
        ELSE IF handler = NilHandler
        THEN [stopped(NoHandlerError, 3) EXCEPT
                 !.telemetry = <<[record EXCEPT !.status = "error"]>>,
                 !.steps = @ \o <<"record">>]
        ELSE [result    |-> outcome.result,
              err       |-> outcome.err,
              invoked   |-> <<handler.Handler>>,
              telemetry |-> <<record>>,
              requests  |-> Record(cfg.telemetry, record, transport).requests,
              steps     |-> HandleWebhookSteps]

\* SDK.HandleWebhook: what it returns, the handler invocations and the
\* telemetry.Record calls it makes, and the telemetry requests these send;
\* outcome is what the handler returns, transport what becomes of a
\* telemetry request.  The error of Record is dropped.
HandleWebhook(cfg, registry, body, headers, clock, outcome, transport) ==
    LET verr     == VerifySignature(cfg.WebhookSecret, body, headers, clock)
        parsed   == Unmarshal(body)
        event    == EventOf(parsed.payload)
        version  == VersionOf(headers)
        handler  == GetHandler(registry, event, version)
        stopped(e, n) == [result |-> NilResult, err |-> e, invoked |-> <<>>,
                          telemetry |-> <<>>, requests |-> <<>>,
                          steps |-> SubSeq(HandleWebhookSteps, 1, n)]
        record   == [event   |-> event,
                     version |-> version,
                     status  |-> IF outcome.err # NoError THEN "error" ELSE "ok",
                     errorMessage |-> outcome.err.Message]
    IN  IF verr # NoError THEN stopped(verr, 1)
        ELSE IF ~parsed.ok THEN stopped(ParseError, 2)
        ELSE IF handler = NilHandler THEN stopped(NoHandlerError, 3)
        ELSE [result    |-> outcome.result,
              err       |-> outcome.err,
              invoked   |-> <<handler.Handler>>,
              telemetry |-> <<record>>,
              requests  |-> Record(cfg.telemetry, record, transport).requests,
              steps     |-> HandleWebhookSteps]

\* the conversion of http.Header: the first value of every name that has one
ConvertHeaders(header) ==
    [k \in {n \in DOMAIN header : Len(header[n]) > 0} |-> header[k][1]]

\* http.Error(w, msg, code)
HttpError(msg, code) ==
    [status |-> code, body |-> msg, contentType |-> "text/plain; charset=utf-8"]

\* every failure of HandleWebhook answered with 500
ServeHTTPAlways500(cfg, registry, method, readOK, body, header, clock, outcome, transport) ==
    LET headers == ConvertHeaders(header)
        hw      == HandleWebhook(cfg, registry, body, headers, clock, outcome, transport)
        none    == [result |-> NilResult, err |-> NoError, invoked |-> <<>>,
                    telemetry |-> <<>>, requests |-> <<>>]
    IN  IF method # "POST"
        THEN [response |-> HttpError("Method not allowed", 405),
              handled |-> FALSE, hw |-> none]
        ELSE IF ~readOK
        THEN [response |-> HttpError("Failed to read request body", 400),
              handled |-> FALSE, hw |-> none]
        ELSE IF hw.err # NoError
        THEN [response |-> HttpError(hw.err.Message, 500),
              handled |-> TRUE, hw |-> hw]
        ELSE [response |->
                 [status |-> 200,
                  body |-> CASE hw.result = NilResult -> "{}"
                             [] hw.result = "chan"    -> ""
                             [] OTHER                 -> "json(" \o hw.result \o ")",
                  contentType |-> "application/json"],
              handled |-> TRUE, hw |-> hw]

\* SDK.ServeHTTP: the response, and the HandleWebhook call it makes (if any)
ServeHTTP(cfg, registry, method, readOK, body, header, clock, outcome, transport) ==
    LET headers == ConvertHeaders(header)
        hw      == HandleWebhook(cfg, registry, body, headers, clock, outcome, transport)
        none    == [result |-> NilResult, err |-> NoError, invoked |-> <<>>,
                    telemetry |-> <<>>, requests |-> <<>>]
    IN  IF method # "POST"
        THEN [response |-> HttpError("Method not allowed", 405),
              handled |-> FALSE, hw |-> none]
        ELSE IF ~readOK
        THEN [response |-> HttpError("Failed to read request body", 400),
              handled |-> FALSE, hw |-> none]
        ELSE IF hw.err # NoError
        THEN [response |-> HttpError(hw.err.Message,
                                     IF IsAuthenticationError(hw.err) THEN 401 ELSE 500),
              handled |-> TRUE, hw |-> hw]
        ELSE [response |->
                 [status |-> 200,
                  body |-> CASE hw.result = NilResult -> "{}"
                             [] hw.result = "chan"    -> ""
                             [] OTHER                 -> "json(" \o hw.result \o ")",
                  contentType |-> "application/json"],
              handled |-> TRUE, hw |-> hw]

----------------------------------------------------------------------------
(* The SDK's operations *)

BodyEvent(e) == Lit(<<"{", "\"event\"", ":", JSONString(e), "}">>)

\* bodies of webhook requests: no JSON, an object without an event, and
\* objects that name an event
WebhookBodies == {BodyNotJSON, BodyEmptyObject} \cup {BodyEvent(e) : e \in EventNames}

\* how a request is signed: with a secret at a time, or not at all
Signings(clock) ==
    {[signed |-> TRUE, secret |-> "s3cr3t", t |-> clock],
     [signed |-> TRUE, secret |-> "s3cr3t", t |-> clock - Window - 1],
     [signed |-> TRUE, secret |-> "0ther", t |-> clock],
     [signed |-> FALSE, secret |-> "", t |-> clock]}

\* the event version header of a request: none, canonical or lowercase
VersionChoices == {"none", "canonical", "lowercase"}

\* the headers of a webhook request with that body
WebhookHeaders(body, signing, versionChoice, clock) ==
    LET gen  == GenerateSignature(signing.secret, body, Timestamp(signing.t), clock)
        v2   == Lit(<<"v", "2">>)
        auth == IF signing.signed
                THEN MakeHeaders(Present(gen.signature), Absent, Present(gen.ts), Absent)
                ELSE MakeHeaders(Absent, Absent, Present(gen.ts), Absent)
        name == IF versionChoice = "canonical" THEN "X-Kiket-Event-Version"
                ELSE "x-kiket-event-version"
    IN  [n \in DOMAIN auth \cup (IF versionChoice = "none" THEN {} ELSE {name}) |->
            IF n \in DOMAIN auth THEN auth[n] ELSE v2]

\* the http.Header of a request: every header with its one value, or with
\* a second value after it, or the signature header with no value
HeaderShapes == {"single", "double", "emptysignature"}

HttpHeader(headers, shape) ==
    [n \in DOMAIN headers |->
        IF shape = "double" THEN <<headers[n], JunkSignature>>
        ELSE IF shape = "emptysignature" /\ n = "X-Kiket-Signature" THEN <<>>
        ELSE <<headers[n]>>]

InitSDK ==
    /\ now = Epoch
    /\ config \in {[WebhookSecret |-> w,
                     telemetry |-> NewTelemetryReporter(FALSE, "", NoURL)] :
                       w \in {"", "s3cr3t"}}
    /\ fixture = NoFixture
    /\ handlers = <<>>
    /\ call = [op |-> "none"]
    /\ threads = NoThreads
    /\ handlersMu = Unlocked
    /\ service = NoService

\* the extension registers a handler
Register ==
    \E event \in EventNames, handler \in {"h1", "h2"}, versions \in {<<>>, <<"v2">>} :
        LET registry == On(handlers, event, handler, versions)
        IN  /\ Idle
            /\ Cardinality(DOMAIN registry) <= MaxHandlers
            /\ handlers' = registry
            /\ call' = [op |-> "On", event |-> event, handler |-> handler,
                        versions |-> versions]
            /\ UNCHANGED <<now, config, fixture, threads, handlersMu, service>>

\* a webhook request is handed to HandleWebhook
Handle ==
    \E body \in WebhookBodies, signing \in Signings(now), v \in VersionChoices,
       outcome \in HandlerOutcomes :
        LET headers == WebhookHeaders(body, signing, v, now)
            out     == HandleWebhook(config, handlers, body, headers, now, outcome,
                                     "delivered")
        IN  /\ Idle
            /\ call' = [op |-> "HandleWebhook", secret |-> config.WebhookSecret,
                        body |-> body, headers |-> headers,
                        clock |-> now, outcome |-> outcome,
                        result |-> out.result, err |-> out.err,
                        invoked |-> out.invoked, telemetry |-> out.telemetry,
                        steps |-> out.steps]
            /\ UNCHANGED <<now, config, fixture, handlers, threads, handlersMu, service>>

\* the requests ServeHTTP is given: the method, and whether the body can be
\* read (it is not read for a method other than POST)
Arrivals ==
    {[method |-> "POST", readOK |-> TRUE], [method |-> "POST", readOK |-> FALSE],
     [method |-> "GET", readOK |-> TRUE]}

\* what the handler returns in the requests ServeHTTP is given
ServedOutcomes == {o \in HandlerOutcomes : o.result = NilResult \/ o.err = NoError}

\* an HTTP request reaches ServeHTTP
Serve ==
    \E arrival \in Arrivals, body \in WebhookBodies \ {BodyEvent("a:b")},
       signing \in {g \in Signings(now) : g.t = now}, shape \in HeaderShapes,
       outcome \in ServedOutcomes :
        LET header == HttpHeader(WebhookHeaders(body, signing, "none", now), shape)
            out    == ServeHTTP(config, handlers, arrival.method, arrival.readOK, body,
                                header, now, outcome, "delivered")
        IN  /\ Idle
            /\ call' = [op |-> "ServeHTTP", method |-> arrival.method,
                        readOK |-> arrival.readOK,
                        body |-> body, header |-> header, clock |-> now,
                        outcome |-> outcome, response |-> out.response,
                        handled |-> out.handled, hw |-> out.hw]
            /\ UNCHANGED <<now, config, fixture, handlers, threads, handlersMu, service>>

NextSDK == Register \/ Handle \/ Serve \/ Return

SpecSDK == InitSDK /\ [][NextSDK]_vars

----------------------------------------------------------------------------
(* The SDK with its telemetry reporter *)

\* the values of KIKET_SDK_TELEMETRY_OPTOUT; "" is the variable unset
OptOutValues == {"", "1", "0", "TRUE"}

\* the values of Config.TelemetryURL: none, a base, the endpoint itself
\* with a trailing slash, and a URL that cannot be parsed
TelemetryURLs ==
    {NoURL, <<"https://t.example">>, <<"https://t.example", "/telemetry", "/">>,
     <<"%zz">>}

\* what becomes of a telemetry request
Transports == {"delivered", "failed"}

\* New(config) with the environment it runs in: the configuration kept,
\* and the reporter built from it
NewSDK(secret, enabled, telemetryURL, optOut) ==
    [WebhookSecret |-> secret, TelemetryEnabled |-> enabled,
     TelemetryURL |-> telemetryURL, optOutAtNew |-> optOut, optOut |-> optOut,
     telemetry |-> NewTelemetryReporter(enabled, optOut, telemetryURL)]

InitTelemetry ==
    /\ now = Epoch
    /\ config \in {NewSDK("s3cr3t", enabled, telemetryURL, optOut) :
                       enabled \in BOOLEAN, telemetryURL \in TelemetryURLs,
                       optOut \in OptOutValues}
    /\ fixture = NoFixture
    /\ handlers = <<>>
    /\ call = [op |-> "none"]
    /\ threads = NoThreads
    /\ handlersMu = Unlocked
    /\ service = NoService

\* the environment variable is changed after the SDK was built
Setenv ==
    \E optOut \in {"", "1"} :
        /\ Idle
        /\ optOut # config.optOut
        /\ config' = [config EXCEPT !.optOut = optOut]
        /\ UNCHANGED <<now, fixture, handlers, call, threads, handlersMu, service>>

\* the extension registers its handler of the event "a"
Subscribe ==
    /\ Idle
    /\ handlers = <<>>
    /\ handlers' = On(handlers, "a", "h1", <<>>)
    /\ call' = [op |-> "On", event |-> "a", handler |-> "h1", versions |-> <<>>]
    /\ UNCHANGED <<now, config, fixture, threads, handlersMu, service>>

\* a webhook request is handed to HandleWebhook, and the telemetry
\* request, if one is sent, is delivered or fails
Report ==
    \E body \in {BodyEmptyObject, BodyEvent("a")},
       signing \in {g \in Signings(now) : g.signed /\ g.t = now},
       outcome \in HandlerOutcomes, transport \in Transports :
        LET headers == WebhookHeaders(body, signing, "none", now)
            out     == HandleWebhook(config, handlers, body, headers, now, outcome,
                                     transport)
        IN  /\ Idle
            /\ call' = [op |-> "HandleWebhook", secret |-> config.WebhookSecret,
                        body |-> body, headers |-> headers,
                        clock |-> now, outcome |-> outcome, transport |-> transport,
                        result |-> out.result, err |-> out.err,
                        invoked |-> out.invoked, telemetry |-> out.telemetry,
                        requests |-> out.requests, steps |-> out.steps]
            /\ UNCHANGED <<now, config, fixture, handlers, threads, handlersMu, service>>

\* the reporter's Record is called
RecordCall ==
    \E status \in {"ok", "error"}, transport \in Transports :
        LET record == [event |-> "a", version |-> "v1", status |-> status,
                       errorMessage |-> ""]
            out    == Record(config.telemetry, record, transport)
        IN  /\ Idle
            /\ call' = [op |-> "Record", record |-> record, transport |-> transport,
                        err |-> out.err, requests |-> out.requests]
            /\ UNCHANGED <<now, config, fixture, handlers, threads, handlersMu, service>>

NextTelemetry == Setenv \/ Subscribe \/ Report \/ RecordCall \/ Return

SpecTelemetry == InitTelemetry /\ [][NextTelemetry]_vars

----------------------------------------------------------------------------
(* The audit client: local verification of a Merkle proof.  Hashes are     *)
(* sequences of one-character strings, byte strings sequences of numbers  *)
(* in 0..255.                                                              *)

\* the bytes of a digest, standing for the 32 of SHA-256
DigestSize == 2

LowerHex == <<"0", "1", "2", "3", "4", "5", "6", "7", "8", "9",
              "a", "b", "c", "d", "e", "f">>

UpperHex == <<"0", "1", "2", "3", "4", "5", "6", "7", "8", "9",
              "A", "B", "C", "D", "E", "F">>

\* encoding/hex: the characters that are hexadecimal digits, and their values
IsHex(c) == \E i \in 1..16 : LowerHex[i] = c \/ UpperHex[i] = c

HexVal(c) == (CHOOSE i \in 1..16 : LowerHex[i] = c \/ UpperHex[i] = c) - 1

\* hex.EncodeToString
RECURSIVE HexEncode(_)
HexEncode(bytes) ==
    IF bytes = <<>> THEN <<>>
    ELSE <<LowerHex[(bytes[1] \div 16) + 1], LowerHex[(bytes[1] % 16) + 1]>>
             \o HexEncode(Tail(bytes))

\* hex.DecodeString: the bytes decoded before the first error, and whether
\* there was none (an invalid character, or an odd length)
RECURSIVE DecodeString(_)
DecodeString(h) ==
    IF Len(h) = 0 THEN [bytes |-> <<>>, ok |-> TRUE]
    ELSE IF Len(h) = 1 THEN [bytes |-> <<>>, ok |-> FALSE]
    ELSE IF ~IsHex(h[1]) \/ ~IsHex(h[2]) THEN [bytes |-> <<>>, ok |-> FALSE]
    ELSE LET rest == DecodeString(SubSeq(h, 3, Len(h)))
         IN  [bytes |-> <<16 * HexVal(h[1]) + HexVal(h[2])>> \o rest.bytes,
              ok    |-> rest.ok]

\* normalizeHash: an optional "0x" stripped, the rest decoded, the error of
\* the decoding dropped
normalizeHash(h) ==
    LET body == IF Len(h) >= 2 /\ h[1] = "0" /\ h[2] = "x"
                THEN SubSeq(h, 3, Len(h)) ELSE h
    IN  DecodeString(body).bytes

\* the number n as DigestSize bytes, most significant first
RECURSIVE ToBytes(_, _)
ToBytes(n, size) ==
    IF size = 0 THEN <<>> ELSE ToBytes(n \div 256, size - 1) \o <<n % 256>>

\* sha256.Sum256: a digest of DigestSize bytes that depends on every byte
\* and on their order; it stands for SHA-256 and has no collision among
\* the byte strings the model hashes
RECURSIVE Mix(_, _)
Mix(h, bytes) ==
    IF bytes = <<>> THEN h
    ELSE Mix((h * 31 + bytes[1] + 1) % (256 ^ DigestSize), Tail(bytes))

Sha256(bytes) == ToBytes(Mix(7, bytes), DigestSize)

\* bytes.Compare(a, b) > 0
RECURSIVE Greater(_, _)
Greater(a, b) ==
    IF a = <<>> THEN FALSE
    ELSE IF b = <<>> THEN TRUE
    ELSE IF a[1] # b[1] THEN a[1] > b[1]
    ELSE Greater(Tail(a), Tail(b))

\* the pair hashed in the order given
hashPairUnsorted(left, right) == Sha256(left \o right)

hashPair(left, right) ==
    IF Greater(left, right) THEN Sha256(right \o left) ELSE Sha256(left \o right)

\* Go's integer division and remainder, which truncate toward zero
GoDiv(a, b) == IF a >= 0 THEN a \div b ELSE 0 - ((0 - a) \div b)

GoRem(a, b) == a - b * GoDiv(a, b)

\* the loop of VerifyProofLocally over the proof path
RECURSIVE ClimbProof(_, _, _)
ClimbProof(current, idx, proofPath) ==
    IF proofPath = <<>> THEN current
    ELSE LET sibling == normalizeHash(proofPath[1])
             next    == IF GoRem(idx, 2) = 0
                        THEN hashPair(current, sibling)
                        ELSE hashPair(sibling, current)
         IN  ClimbProof(next, GoDiv(idx, 2), Tail(proofPath))

VerifyProofLocally(contentHash, proofPath, leafIndex, merkleRoot) ==
    ClimbProof(normalizeHash(contentHash), leafIndex, proofPath)
        = normalizeHash(merkleRoot)

----------------------------------------------------------------------------
(* Inputs and operations of the proof verifier *)

\* the content hash of a record: "0x" and the lowercase hex of its digest
HashString(bytes) == <<"0", "x">> \o HexEncode(bytes)

\* a Go map as a function from its keys; keys are byte strings, and a
\* value is the bytes of its JSON, or a value encoding/json rejects
RecordKeys == {<<97>>, <<98>>, <<97, 98>>}

Unencodable == [json |-> <<>>, ok |-> FALSE]

RecordValues == {[json |-> <<49>>, ok |-> TRUE], [json |-> <<50>>, ok |-> TRUE], Unencodable}

\* the map a sequence of assignments data[k] = v builds
RECURSIVE BuildMap(_)
BuildMap(insertions) ==
    IF insertions = <<>> THEN <<>>
    ELSE LET rest == BuildMap(SubSeq(insertions, 1, Len(insertions) - 1))
             last == insertions[Len(insertions)]
         IN  [k \in DOMAIN rest \cup {last[1]} |->
                 IF k = last[1] THEN last[2] ELSE rest[k]]

\* a sorted sequence with one more string put in its place
RECURSIVE InsertSorted(_, _)
InsertSorted(k, sorted) ==
    IF sorted = <<>> THEN <<k>>
    ELSE IF Greater(sorted[1], k) THEN <<k>> \o sorted
    ELSE <<sorted[1]>> \o InsertSorted(k, Tail(sorted))

\* sort.Strings(keys)
RECURSIVE SortStrings(_)
SortStrings(keys) ==
    IF keys = <<>> THEN <<>> ELSE InsertSorted(keys[1], SortStrings(Tail(keys)))

\* the members of a JSON object written in the order of keys
RECURSIVE MarshalMembers(_, _)
MarshalMembers(keys, data) ==
    IF keys = <<>> THEN <<>>
    ELSE (IF Len(keys) > 1 THEN MarshalMembers(SubSeq(keys, 1, Len(keys) - 1), data) \o <<44>>
          ELSE <<>>)
         \o <<34>> \o keys[Len(keys)] \o <<34, 58>> \o data[keys[Len(keys)]].json

\* the keys of a map in some order
RECURSIVE SomeOrder(_)
SomeOrder(keys) ==
    IF keys = {} THEN <<>>
    ELSE LET k == CHOOSE x \in keys : TRUE IN <<k>> \o SomeOrder(keys \ {k})

\* json.Marshal of a map: an error when a value has no encoding, else
\* the object with its keys sorted
Marshal(data) ==
    IF \E k \in DOMAIN data : ~data[k].ok
    THEN [bytes |-> <<>>, ok |-> FALSE]
    ELSE [bytes |-> <<123>> \o MarshalMembers(SortStrings(SomeOrder(DOMAIN data)), data)
                        \o <<125>>,
          ok |-> TRUE]

\* the members hashed in the order the map is ranged over
ComputeContentHashRangeOrder(data, rangeOrder) ==
    HashString(Sha256(<<123>> \o MarshalMembers(rangeOrder, data) \o <<125>>))

\* ComputeContentHash(data); rangeOrder is the order in which the range
\* statement yields the keys of data
ComputeContentHash(data, rangeOrder) ==
    LET keys      == SortStrings(rangeOrder)
        sorted    == [k \in {keys[i] : i \in 1..Len(keys)} |-> data[k]]
        canonical == Marshal(sorted).bytes
    IN  HashString(Sha256(canonical))

\* the leaves of the trees
NumLeaves == 3

Leaf(i) == HashString(Sha256(<<i>>))

\* a hash in capitals and without "0x"
RECURSIVE ToUpper(_)
ToUpper(h) ==
    IF h = <<>> THEN <<>>
    ELSE <<IF IsHex(h[1]) THEN UpperHex[HexVal(h[1]) + 1] ELSE h[1]>> \o ToUpper(Tail(h))

Bare(h) == SubSeq(h, 3, Len(h))

\* what is not the hex of a digest: nothing, no hex digits, "0x" alone
Garbage == {<<>>, <<"z", "z">>, <<"0", "x">>}

\* a hash followed by characters that are no hex digits, or by one digit
Trailing(h) == {h \o <<"z", "z">>, h \o <<"a">>}

ContentHashes ==
    {Leaf(i) : i \in 1..2} \cup {Bare(Leaf(1)), ToUpper(Bare(Leaf(1)))}
        \cup Trailing(Leaf(1)) \cup Garbage

Siblings == {Leaf(i) : i \in 1..NumLeaves} \cup {Leaf(2) \o <<"z", "z">>}

\* the longest proof path
MaxProof == 2

ProofPaths == UNION {[1..n -> Siblings] : n \in 0..MaxProof}

LeafIndexes == {-1, 0, 1, 2}

\* the root of the tree of the first two leaves
FirstTwoRoot == HashString(hashPair(normalizeHash(Leaf(1)), normalizeHash(Leaf(2))))

\* the roots a proof is checked against: the root of the tree the proof
\* climbs, that root altered, the leaf itself, another leaf, the root of
\* the tree of the first two leaves, garbage
MerkleRoots(contentHash, proofPath) ==
    LET root == HashString(ClimbProof(normalizeHash(contentHash), 0, proofPath))
    IN  {root, Bare(root), contentHash, Leaf(NumLeaves), FirstTwoRoot}
            \cup Trailing(root) \cup Garbage

InitMerkle ==
    /\ now = Epoch
    /\ config = [WebhookSecret |-> ""]
    /\ fixture = NoFixture
    /\ handlers = <<>>
    /\ call = [op |-> "none"]
    /\ threads = NoThreads
    /\ handlersMu = Unlocked
    /\ service = NoService

\* a proof is verified locally
VerifyLocally ==
    /\ Idle
    /\ \E contentHash \in ContentHashes, proofPath \in ProofPaths,
          leafIndex \in LeafIndexes :
        \E merkleRoot \in MerkleRoots(contentHash, proofPath) :
            /\ call' = [op |-> "VerifyProofLocally", contentHash |-> contentHash,
                        proofPath |-> proofPath, leafIndex |-> leafIndex,
                        merkleRoot |-> merkleRoot,
                        result |-> VerifyProofLocally(contentHash, proofPath,
                                                      leafIndex, merkleRoot)]
            /\ UNCHANGED <<now, config, fixture, handlers, threads, handlersMu, service>>

\* the byte strings hashPair is given: digests, and strings of other
\* lengths, one a prefix of another
ByteStrings ==
    {normalizeHash(Leaf(i)) : i \in 1..NumLeaves} \cup {<<>>, <<1>>, <<1, 2>>, <<2>>}

\* two byte strings are combined
Combine ==
    /\ Idle
    /\ \E left \in ByteStrings, right \in ByteStrings :
        /\ call' = [op |-> "hashPair", left |-> left, right |-> right,
                    result |-> hashPair(left, right)]
        /\ UNCHANGED <<now, config, fixture, handlers, threads, handlersMu, service>>

\* the sequences of distinct members of a set
Orders(S) ==
    {o \in [1..Cardinality(S) -> S] : \A i, j \in 1..Cardinality(S) : i # j => o[i] # o[j]}

\* the sequences of assignments that build a record, each key once
Insertions ==
    UNION {UNION {{[i \in 1..Len(o) |-> <<o[i], v[o[i]]>>] : o \in Orders(K)} :
                      v \in [K -> RecordValues]} : K \in SUBSET RecordKeys}

\* the content hash of a record is computed
ComputeHash ==
    /\ Idle
    /\ \E insertions \in Insertions :
        LET data == BuildMap(insertions)
        IN  \E rangeOrder \in Orders(DOMAIN data) :
                /\ call' = [op |-> "ComputeContentHash", insertions |-> insertions,
                            data |-> data, rangeOrder |-> rangeOrder,
                            result |-> ComputeContentHash(data, rangeOrder)]
                /\ UNCHANGED <<now, config, fixture, handlers, threads, handlersMu, service>>

NextMerkle == VerifyLocally \/ Combine \/ ComputeHash \/ Return

SpecMerkle == InitMerkle /\ [][NextMerkle]_vars

----------------------------------------------------------------------------
(* kiket/client.go and the audit client's calls of the audit service.      *)
(* Times are in seconds.  A JSON text is a sequence of its tokens.         *)

\* the timeout of an HTTPClient built without WithTimeout, in seconds
defaultTimeout == 30

\* context.Background(): no deadline, never cancelled
Background == [set |-> FALSE, at |-> 0]

\* a context that is done d seconds after the call starts
WithDeadline(d) == [set |-> TRUE, at |-> d]

NoTimeoutOption == [set |-> FALSE, d |-> 0]

\* WithTimeout(d)
WithTimeout(d) == [set |-> TRUE, d |-> d]

\* NewHTTPClient(opts...): the timeout is the default unless an option sets it
NewHTTPClient(timeoutOption) ==
    [baseURL |-> "https://kiket.dev",
     Timeout |-> IF timeoutOption.set THEN timeoutOption.d ELSE defaultTimeout]

\* when httpClient.Do gives up waiting: at the deadline of the request's
\* context or after the client's timeout, whichever is first
GiveUpAfter(client, ctx) ==
    IF ctx.set /\ ctx.at < client.Timeout THEN ctx.at ELSE client.Timeout

\* what the network does with a request: no connection, no answer in time,
\* an answer whose body cannot be read, or a response
TransportError == [kind |-> "error", status |-> 0, body |-> <<>>]

NoAnswer == [kind |-> "timeout", status |-> 0, body |-> <<>>]

UnreadableAnswer(status) == [kind |-> "unreadable", status |-> status, body |-> <<>>]

Response(status, body) == [kind |-> "response", status |-> status, body |-> body]

APIError(status) ==
    [type |-> "*kiket.APIError", Message |-> "API error (status %d): %s",
     arg |-> status, wraps |-> "nil"]

RequestFailed ==
    [type |-> "*fmt.wrapError", Message |-> "request failed: %w", arg |-> 0,
     wraps |-> "*url.Error"]

ReadFailed ==
    [type |-> "*fmt.wrapError", Message |-> "failed to read response: %w", arg |-> 0,
     wraps |-> "error"]

\* the path of a request and the parameters of its query
Path(path, query) == [path |-> path, query |-> query]

NoQuery == <<>>

\* a request sent again after a failure
doRequestRetrying(client, ctx, method, path, body, outcome) ==
    LET request == [method |-> method, baseURL |-> client.baseURL, path |-> path,
                        body |-> body]
    IN  IF outcome.kind \in {"error", "timeout"}
        THEN [requests |-> <<request, request>>, resp |-> <<>>, err |-> RequestFailed]
        ELSE IF outcome.kind = "unreadable"
        THEN [requests |-> <<request>>, resp |-> <<>>, err |-> ReadFailed]
        ELSE IF outcome.status >= 400
        THEN [requests |-> <<request, request>>, resp |-> <<>>,
              err |-> APIError(outcome.status)]
        ELSE [requests |-> <<request>>, resp |-> outcome.body, err |-> NoError]

\* HTTPClient.doRequest: the requests it sends and what it returns, given
\* what the network does with the request
doRequest(client, ctx, method, path, body, outcome) ==
    LET request == [method |-> method, baseURL |-> client.baseURL, path |-> path,
                        body |-> body]
    IN  IF outcome.kind \in {"error", "timeout"}
        THEN [requests |-> <<request>>, resp |-> <<>>, err |-> RequestFailed]
        ELSE IF outcome.kind = "unreadable"
        THEN [requests |-> <<request>>, resp |-> <<>>, err |-> ReadFailed]
        ELSE IF outcome.status >= 400
        THEN [requests |-> <<request>>, resp |-> <<>>, err |-> APIError(outcome.status)]
        ELSE [requests |-> <<request>>, resp |-> outcome.body, err |-> NoError]

\* the members of the responses the model parses
VerifiedName == "\"verified\""

ProofValidName == "\"proof_valid\""

BlockchainVerifiedName == "\"blockchain_verified\""

FlagNames == {VerifiedName, ProofValidName, BlockchainVerifiedName}

NoFlags == [n \in FlagNames |-> FALSE]

\* the members of a JSON object after its brace: name, colon, value, and
\* a comma or the closing brace; a boolean field takes true, false or null
RECURSIVE UnmarshalMembers(_, _, _)
UnmarshalMembers(tokens, fields, boolFields) ==
    IF Len(tokens) < 4 \/ tokens[2] # ":" \/ tokens[1] \notin FlagNames
       \/ tokens[3] \notin {"true", "false", "null", "\"yes\""}
    THEN [ok |-> FALSE, fields |-> fields]
    ELSE LET name   == tokens[1]
             typed  == name \notin boolFields \/ tokens[3] # "\"yes\""
             stored == [n \in FlagNames |->
                           IF n = name /\ n \in boolFields /\ tokens[3] \in {"true", "false"}
                           THEN tokens[3] = "true" ELSE fields[n]]
         IN  IF tokens[4] = "}" /\ Len(tokens) = 4
             THEN [ok |-> typed, fields |-> stored]
             ELSE IF tokens[4] = ","
             THEN LET rest == UnmarshalMembers(SubSeq(tokens, 5, Len(tokens)), stored,
                                               boolFields)
                  IN  [ok |-> typed /\ rest.ok, fields |-> rest.fields]
             ELSE [ok |-> FALSE, fields |-> fields]

\* json.Unmarshal(resp, &result) into a struct with those boolean fields:
\* null leaves the struct as it is, an object sets the fields it names
UnmarshalStruct(resp, boolFields) ==
    IF resp = <<"null">> \/ resp = <<"{", "}">> THEN [ok |-> TRUE, fields |-> NoFlags]
    ELSE IF Len(resp) >= 2 /\ resp[1] = "{"
    THEN UnmarshalMembers(Tail(resp), NoFlags, boolFields)
    ELSE [ok |-> FALSE, fields |-> NoFlags]

ResponseParseError ==
    [type |-> "*fmt.wrapError", Message |-> "failed to parse response: %w", arg |-> 0,
     wraps |-> "*json.SyntaxError"]

NilVerificationResult ==
    [nil |-> TRUE, Verified |-> FALSE, ProofValid |-> FALSE, BlockchainVerified |-> FALSE]

\* the service's verdict joined with a local check of the proof
AuditVerifyCheckingLocally(client, proof, outcome) ==
    LET sent   == doRequest(client, Background, "POST",
                            Path("/api/v1/audit/verify", NoQuery), proof, outcome)
        parsed == UnmarshalStruct(sent.resp, FlagNames)
        local  == VerifyProofLocally(proof.ContentHash, proof.Proof, proof.LeafIndex,
                                     proof.MerkleRoot)
    IN  IF sent.err # NoError
        THEN [requests |-> sent.requests, result |-> NilVerificationResult,
              err |-> sent.err]
        ELSE IF ~parsed.ok
        THEN [requests |-> sent.requests, result |-> NilVerificationResult,
              err |-> ResponseParseError]
        ELSE [requests |-> sent.requests,
              result |-> [nil |-> FALSE,
                          Verified |-> parsed.fields[VerifiedName] /\ local,
                          ProofValid |-> parsed.fields[ProofValidName] /\ local,
                          BlockchainVerified |-> parsed.fields[BlockchainVerifiedName]],
              err |-> NoError]

\* AuditClient.Verify(proof): the requests sent, the result and the error.
\* The call takes no context: the request is sent with none of the caller's.
AuditVerify(client, proof, outcome) ==
    LET sent   == doRequest(client, Background, "POST",
                            Path("/api/v1/audit/verify", NoQuery), proof, outcome)
        parsed == UnmarshalStruct(sent.resp, FlagNames)
    IN  IF sent.err # NoError
        THEN [requests |-> sent.requests, result |-> NilVerificationResult,
              err |-> sent.err]
        ELSE IF ~parsed.ok
        THEN [requests |-> sent.requests, result |-> NilVerificationResult,
              err |-> ResponseParseError]
        ELSE [requests |-> sent.requests,
              result |-> [nil |-> FALSE,
                          Verified |-> parsed.fields[VerifiedName],
                          ProofValid |-> parsed.fields[ProofValidName],
                          BlockchainVerified |-> parsed.fields[BlockchainVerifiedName]],
              err |-> NoError]

\* a GET of the audit service and the parsing of its response into a struct
\* of the result's type (none of whose fields the model reads)
GetAndParse(client, path, outcome) ==
    LET sent   == doRequest(client, Background, "GET", path, "nil", outcome)
        parsed == UnmarshalStruct(sent.resp, {})
    IN  IF sent.err # NoError
        THEN [requests |-> sent.requests, result |-> [nil |-> TRUE], err |-> sent.err]
        ELSE IF ~parsed.ok
        THEN [requests |-> sent.requests, result |-> [nil |-> TRUE],
              err |-> ResponseParseError]
        ELSE [requests |-> sent.requests, result |-> [nil |-> FALSE], err |-> NoError]

\* a *time.Time: nil, or a time in the first minute of 1970 (UTC)
NilTime == [set |-> FALSE, sec |-> 0]

Time(sec) == [set |-> TRUE, sec |-> sec]

\* t.Format(time.RFC3339)
RFC3339(t) ==
    Lit(<<"1970-01-01T00:00:">>
            \o (IF t.sec < 10 THEN <<"0">> ELSE <<>>) \o FormatUint(t.sec) \o <<"Z">>)

\* the parameters ListAnchors puts in url.Values
ListAnchorsParams(opts) ==
    LET names == {"page", "per_page"}
                    \cup (IF opts.Status # "" THEN {"status"} ELSE {})
                    \cup (IF opts.Network # "" THEN {"network"} ELSE {})
                    \cup (IF opts.From.set THEN {"from"} ELSE {})
                    \cup (IF opts.To.set THEN {"to"} ELSE {})
    IN  [n \in names |->
            CASE n = "page"     -> IF opts.Page > 0 THEN FormatInt(opts.Page)
                                   ELSE Lit(<<"1">>)
              [] n = "per_page" -> IF opts.PerPage > 0 THEN FormatInt(opts.PerPage)
                                   ELSE Lit(<<"2", "5">>)
              [] n = "status"   -> Lit(<<opts.Status>>)
              [] n = "network"  -> Lit(<<opts.Network>>)
              [] n = "from"     -> RFC3339(opts.From)
              [] n = "to"       -> RFC3339(opts.To)]

\* page and per_page left out when the caller gave none
ListAnchorsWithoutDefaults(client, opts, outcome) ==
    LET params == ListAnchorsParams(opts)
        given  == {n \in DOMAIN params :
                      /\ (n = "page" => opts.Page > 0)
                      /\ (n = "per_page" => opts.PerPage > 0)}
    IN  GetAndParse(client, Path("/api/v1/audit/anchors", [n \in given |-> params[n]]),
                    outcome)

\* AuditClient.ListAnchors(opts)
ListAnchors(client, opts, outcome) ==
    GetAndParse(client, Path("/api/v1/audit/anchors", ListAnchorsParams(opts)), outcome)

\* AuditClient.GetAnchor(merkleRoot, includeRecords)
GetAnchor(client, merkleRoot, includeRecords, outcome) ==
    GetAndParse(client,
                Path("/api/v1/audit/anchors/" \o merkleRoot,
                     IF includeRecords THEN [include_records |-> Lit(<<"true">>)]
                     ELSE NoQuery),
                outcome)

\* AuditClient.GetProof(recordID)
GetProof(client, recordID, outcome) ==
    GetAndParse(client,
                Path("/api/v1/audit/records/" \o Join(FormatInt(recordID).lit) \o "/proof",
                     NoQuery),
                outcome)

----------------------------------------------------------------------------
(* The audit client's operations *)

\* the seconds between two looks at a waiting call
ClockStep == 10

\* the method of the audit client a call names, applied to its input
AuditCall(client, method, input, outcome) ==
    CASE method = "Verify"      -> AuditVerify(client, input, outcome)
      [] method = "ListAnchors" -> ListAnchors(client, input, outcome)
      [] method = "GetAnchor"   -> GetAnchor(client, input.merkleRoot,
                                             input.includeRecords, outcome)
      [] method = "GetProof"    -> GetProof(client, input.recordID, outcome)

\* the context a call of the audit client runs under: its methods take
\* none, whatever deadline the caller has in mind
AuditContext(deadline) == Background

\* proofs handed to Verify: one that verifies locally, one that does not
Proofs ==
    {[ContentHash |-> Leaf(1), MerkleRoot |-> r, Proof |-> <<>>, LeafIndex |-> 0,
      TxHash |-> "nil"] : r \in {Leaf(1), Leaf(2)}}

ListAnchorsOptions ==
    {[Status |-> f[1], Network |-> f[2], From |-> t[1], To |-> t[2],
      Page |-> page, PerPage |-> perPage] :
        f \in {<<"", "">>, <<"confirmed", "">>, <<"", "polygon">>},
        t \in {<<NilTime, NilTime>>, <<Time(0), NilTime>>, <<Time(5), Time(59)>>},
        page \in {-1, 0, 2}, perPage \in {0, 50}}

\* the calls of the audit client
AuditCalls ==
    {[method |-> "Verify", input |-> proof] : proof \in Proofs}
        \cup {[method |-> "ListAnchors", input |-> opts] : opts \in ListAnchorsOptions}
        \cup {[method |-> "GetAnchor",
               input |-> [merkleRoot |-> "0xab", includeRecords |-> b]] : b \in BOOLEAN}
        \cup {[method |-> "GetProof", input |-> [recordID |-> 7]]}

\* the deadline the caller has in mind for a call: none, or some seconds
CallerDeadlines == {Background, WithDeadline(ClockStep)}

Flags(v, p, b) ==
    <<"{", VerifiedName, ":", v, ",", ProofValidName, ":", p, ",",
      BlockchainVerifiedName, ":", b, "}">>

\* bodies of the audit service's responses
ResponseBodies ==
    {Flags("true", "true", "true"), Flags("true", "false", "true"),
     Flags("false", "true", "false"),
     <<"{", VerifiedName, ":", "true", "}">>,
     <<"{", VerifiedName, ":", "\"yes\"", "}">>,
     <<"{", "}">>, <<"null">>, <<"<html>">>, <<>>}

\* what the network does with a request that is answered in time
Answers ==
    {Response(status, body) : status \in {200, 300}, body \in ResponseBodies}
        \cup {Response(status, <<"{", "}">>) : status \in {404, 500}}
        \cup {TransportError, UnreadableAnswer(200)}

InitAudit ==
    /\ now = Epoch
    /\ config \in {[WebhookSecret |-> "", client |-> NewHTTPClient(option)] :
                       option \in {NoTimeoutOption, WithTimeout(2 * ClockStep)}}
    /\ fixture = NoFixture
    /\ handlers = <<>>
    /\ call = [op |-> "none"]
    /\ threads = NoThreads
    /\ handlersMu = Unlocked
    /\ service = NoService

\* a method of the audit client is called and its request sent
AuditStart ==
    \E c \in AuditCalls, deadline \in CallerDeadlines :
        /\ Idle
        /\ call' = [op |-> "AuditClient", state |-> "waiting", method |-> c.method,
                    input |-> c.input, deadline |-> deadline, elapsed |-> 0]
        /\ UNCHANGED <<now, config, fixture, handlers, threads, handlersMu, service>>

\* time passes and the call is still waiting
AuditWait ==
    /\ Waiting
    /\ call.elapsed + ClockStep
           < GiveUpAfter(config.client, AuditContext(call.deadline))
    /\ call' = [call EXCEPT !.elapsed = @ + ClockStep]
    /\ UNCHANGED <<now, config, fixture, handlers, threads, handlersMu, service>>

\* the call returns with what its method returns for that outcome
Returned(outcome, elapsed) ==
    LET out == AuditCall(config.client, call.method, call.input, outcome)
    IN  [op |-> "AuditClient", state |-> "returned", method |-> call.method,
         input |-> call.input, deadline |-> call.deadline, elapsed |-> elapsed,
         outcome |-> outcome, requests |-> out.requests, result |-> out.result,
         err |-> out.err]

\* the network answers the request, or fails to
AuditAnswer ==
    \E outcome \in Answers :
        /\ Waiting
        /\ call' = Returned(outcome, call.elapsed)
        /\ UNCHANGED <<now, config, fixture, handlers, threads, handlersMu, service>>

\* no answer has come when the HTTP client gives up
AuditGiveUp ==
    LET limit == GiveUpAfter(config.client, AuditContext(call.deadline))
    IN  /\ Waiting
        /\ call.elapsed + ClockStep >= limit
        /\ call' = Returned(NoAnswer, limit)
        /\ UNCHANGED <<now, config, fixture, handlers, threads, handlersMu, service>>

NextAudit == AuditStart \/ AuditWait \/ AuditAnswer \/ AuditGiveUp \/ Return

SpecAudit == InitAudit /\ [][NextAudit]_vars

----------------------------------------------------------------------------
(* Concurrent calls of the verifiers.  Each call runs in a thread of its   *)
(* own, in the steps of its code; between two steps any other thread may   *)
(* take steps and the clock may advance.                                   *)

\* the threads that run calls at the same time
NumThreads == 2

ThreadIds == 1..NumThreads

\* a thread that runs no call, with the local variables of the calls
BlankThread ==
    [pc |-> "idle", op |-> "none", input |-> <<>>, clock |-> 0, current |-> <<>>,
     idx |-> 0, at |-> 0, keys |-> <<>>, err |-> NoError, verified |-> FALSE,
     hash |-> <<>>, result |-> NilHandler, names |-> <<>>]

\* VerifySignature up to its reading of the clock
BeforeClock(secret, headers) ==
    LET signature == HeaderValue(headers, "X-Kiket-Signature", "x-kiket-signature")
        timestamp == HeaderValue(headers, "X-Kiket-Timestamp", "x-kiket-timestamp")
    IN  IF secret = ""
        THEN AuthenticationError("webhook secret not configured", 0)
        ELSE IF signature = EmptyString
        THEN AuthenticationError("missing X-Kiket-Signature header", 0)
        ELSE IF timestamp = EmptyString
        THEN AuthenticationError("missing X-Kiket-Timestamp header", 0)
        ELSE IF ~ParseInt(timestamp).ok
        THEN AuthenticationError("invalid X-Kiket-Timestamp header", 0)
        ELSE NoError

\* VerifySignature after its reading of the clock
AfterClock(secret, body, headers, clock) ==
    LET signature == HeaderValue(headers, "X-Kiket-Signature", "x-kiket-signature")
        timestamp == HeaderValue(headers, "X-Kiket-Timestamp", "x-kiket-timestamp")
        timeDiff  == TimeDiff(clock, ParseInt(timestamp).val)
        expected  == HmacSha256Hex(secret, SignedPayload(timestamp, body))
    IN  IF TooOld(timeDiff)
        THEN AuthenticationError(
                 "request timestamp too old or too far in future: %.0fs", timeDiff)
        ELSE IF ~ConstantTimeCompare(signature, expected)
        THEN AuthenticationError("invalid signature", 0)
        ELSE NoError

\* the next step of thread t in VerifySignature: the checks of its
\* arguments, the reading of the clock, the checks that use the reading
SignatureStep(ts, t, clock) ==
    LET th == ts[t]
        in == th.input
        e0 == BeforeClock(in.secret, in.headers)
    IN  CASE th.pc = "begin" ->
                 IF e0 # NoError THEN [th EXCEPT !.pc = "done", !.err = e0]
                 ELSE [th EXCEPT !.pc = "clock"]
          [] th.pc = "clock" -> [th EXCEPT !.pc = "compare", !.clock = clock]
          [] th.pc = "compare" ->
                 [th EXCEPT !.pc = "done",
                            !.err = AfterClock(in.secret, in.body, in.headers, th.clock)]

\* the proof climbed in a buffer that all calls share, kept by thread 1
ProofStepSharedBuffer(ts, t) ==
    LET th == ts[t]
        in == th.input
        shared == ts[1].current
    IN  CASE th.pc = "begin" ->
                 [th EXCEPT !.pc = "loop", !.current = normalizeHash(in.contentHash),
                            !.idx = in.leafIndex, !.at = 1]
          [] th.pc = "loop" /\ th.at <= Len(in.proofPath) ->
                 LET sibling == normalizeHash(in.proofPath[th.at])
                 IN  [th EXCEPT !.current = IF GoRem(th.idx, 2) = 0
                                            THEN hashPair(shared, sibling)
                                            ELSE hashPair(sibling, shared),
                                !.idx = GoDiv(th.idx, 2), !.at = th.at + 1]
          [] th.pc = "loop" /\ th.at > Len(in.proofPath) ->
                 [th EXCEPT !.pc = "done",
                            !.verified = (shared = normalizeHash(in.merkleRoot))]

\* the next step of thread t in VerifyProofLocally: the content hash
\* decoded, one sibling of the proof combined, the root compared
ProofStep(ts, t) ==
    LET th == ts[t]
        in == th.input
    IN  CASE th.pc = "begin" ->
                 [th EXCEPT !.pc = "loop", !.current = normalizeHash(in.contentHash),
                            !.idx = in.leafIndex, !.at = 1]
          [] th.pc = "loop" /\ th.at <= Len(in.proofPath) ->
                 LET sibling == normalizeHash(in.proofPath[th.at])
                 IN  [th EXCEPT !.current = IF GoRem(th.idx, 2) = 0
                                            THEN hashPair(th.current, sibling)
                                            ELSE hashPair(sibling, th.current),
                                !.idx = GoDiv(th.idx, 2), !.at = th.at + 1]
          [] th.pc = "loop" /\ th.at > Len(in.proofPath) ->
                 [th EXCEPT !.pc = "done",
                            !.verified = (th.current = normalizeHash(in.merkleRoot))]

\* the next step of thread t in ComputeContentHash: the keys ranged over,
\* the keys sorted, the sorted map marshalled and hashed
HashStep(ts, t) ==
    LET th == ts[t]
        in == th.input
    IN  CASE th.pc = "begin" -> [th EXCEPT !.pc = "sort", !.keys = in.rangeOrder]
          [] th.pc = "sort" -> [th EXCEPT !.pc = "marshal", !.keys = SortStrings(th.keys)]
          [] th.pc = "marshal" ->
                 LET sorted == [k \in {th.keys[i] : i \in 1..Len(th.keys)} |-> in.data[k]]
                 IN  [th EXCEPT !.pc = "done",
                                !.hash = HashString(Sha256(Marshal(sorted).bytes))]

\* the calls the threads make
SignedRequest ==
    LET body == BodyEmptyObject
        gen  == GenerateSignature("s3cr3t", body, Timestamp(Epoch), Epoch)
    IN  [secret |-> "s3cr3t", body |-> body,
         headers |-> MakeHeaders(Present(gen.signature), Absent, Present(gen.ts), Absent)]

ConcurrentCalls ==
    {[op |-> "VerifySignature", input |-> SignedRequest],
     [op |-> "VerifySignature",
      input |-> [SignedRequest EXCEPT
                    !.headers = MakeHeaders(Present(JunkSignature), Absent, Absent, Absent)]]}
    \cup {[op |-> "VerifyProofLocally",
           input |-> [contentHash |-> Leaf(1), proofPath |-> <<Leaf(2), Leaf(3)>>,
                      leafIndex |-> 1, merkleRoot |-> r]] :
              r \in {Leaf(2),
                     HashString(ClimbProof(normalizeHash(Leaf(1)), 0, <<Leaf(2), Leaf(3)>>))}}
    \cup {[op |-> "ComputeContentHash",
           input |-> [data |-> BuildMap(<<<<<<98>>, [json |-> <<49>>, ok |-> TRUE]>>, <<<<97>>, [json |-> <<49>>, ok |-> TRUE]>>>>),
                      rangeOrder |-> o]] : o \in {<<<<98>>, <<97>>>>, <<<<97>>, <<98>>>>}}

InitConcurrent ==
    /\ now = Epoch
    /\ config = [WebhookSecret |-> "s3cr3t"]
    /\ fixture = NoFixture
    /\ handlers = <<>>
    /\ call = [op |-> "none"]
    /\ threads = [t \in ThreadIds |-> BlankThread]
    /\ handlersMu = Unlocked
    /\ service = NoService

\* thread t starts a call
Spawn(t) ==
    \E c \in ConcurrentCalls :
        /\ threads[t].pc = "idle"
        /\ threads' = [threads EXCEPT
                          ![t] = [BlankThread EXCEPT !.pc = "begin", !.op = c.op,
                                                     !.input = c.input]]
        /\ UNCHANGED <<now, config, fixture, handlers, call, handlersMu, service>>

Running(t, op) == threads[t].op = op /\ threads[t].pc \notin {"idle", "done"}

\* thread t takes a step of VerifySignature
StepSignature(t) ==
    /\ Running(t, "VerifySignature")
    /\ threads' = [threads EXCEPT ![t] = SignatureStep(threads, t, now)]
    /\ UNCHANGED <<now, config, fixture, handlers, call, handlersMu, service>>

\* thread t takes a step of VerifyProofLocally
StepProof(t) ==
    /\ Running(t, "VerifyProofLocally")
    /\ threads' = [threads EXCEPT ![t] = ProofStep(threads, t)]
    /\ UNCHANGED <<now, config, fixture, handlers, call, handlersMu, service>>

\* thread t takes a step of ComputeContentHash
StepHash(t) ==
    /\ Running(t, "ComputeContentHash")
    /\ threads' = [threads EXCEPT ![t] = HashStep(threads, t)]
    /\ UNCHANGED <<now, config, fixture, handlers, call, handlersMu, service>>

\* the caller takes the result of thread t
Collect(t) ==
    /\ threads[t].pc = "done"
    /\ threads' = [threads EXCEPT ![t] = BlankThread]
    /\ UNCHANGED <<now, config, fixture, handlers, call, handlersMu, service>>

NextConcurrent ==
    \/ Tick
    \/ \E t \in ThreadIds : Spawn(t)
    \/ \E t \in ThreadIds : StepSignature(t)
    \/ \E t \in ThreadIds : StepProof(t)
    \/ \E t \in ThreadIds : StepHash(t)
    \/ \E t \in ThreadIds : Collect(t)

SpecConcurrent == InitConcurrent /\ [][NextConcurrent]_vars

----------------------------------------------------------------------------
(* The secrets of an extension.  HandlerContext.Secret gives the secrets   *)
(* a webhook payload carries, with the process environment behind them;    *)
(* the method is exercised by kiket/handler_context_test.go and its body   *)
(* is not among the sources.  The secret manager keeps secrets in the      *)
(* Kiket service.                                                          *)

\* the names secrets are looked up by
SecretNames == {"API_KEY", "TOKEN"}

\* an entry of a map[string]string: the key missing, or present with a value
NoEntry == [has |-> FALSE, value |-> ""]

MapEntry(value) == [has |-> TRUE, value |-> value]

\* HandlerContext.payloadSecrets: nil, or a map
NilPayloadSecrets == [nil |-> TRUE, m |-> [k \in SecretNames |-> NoEntry]]

PayloadSecrets(m) == [nil |-> FALSE, m |-> m]

\* os.Getenv(key): the value of the variable, "" when it is not set
Getenv(env, key) == IF key \in DOMAIN env THEN env[key] ELSE ""

\* an entry of the payload returned even when its value is empty
SecretKeepingEmpty(payloadSecrets, env, key) ==
    IF ~payloadSecrets.nil /\ payloadSecrets.m[key].has
    THEN payloadSecrets.m[key].value
    ELSE Getenv(env, key)

\* HandlerContext.Secret(key): the payload's value when it is there and not
\* empty, the environment's otherwise
Secret(payloadSecrets, env, key) ==
    IF payloadSecrets.nil THEN Getenv(env, key)
    ELSE LET entry == payloadSecrets.m[key]
         IN  IF entry.has /\ entry.value # "" THEN entry.value ELSE Getenv(env, key)

\* part_000: the secret manager, whose requests go through the HTTP client

ExtensionIDRequired ==
    [type |-> "*errors.errorString",
     Message |-> "extension ID required for secret operations", arg |-> 0,
     wraps |-> "nil"]

\* NewSecretManager(client, extensionID)
NewSecretManager(client, extensionID) == [client |-> client, extensionID |-> extensionID]

\* fmt.Sprintf("%s/extensions/%s/secrets/%s", apiPrefix, s.extensionID, key)
SecretPath(extensionID, key) ==
    Path("/api/v1" \o "/extensions/" \o extensionID \o "/secrets/" \o key, NoQuery)

\* secretManager.Set: the requests it sends and the error it returns,
\* given what the network does with the request
SecretManagerSet(mgr, ctx, key, value, outcome) ==
    IF mgr.extensionID = "" THEN [requests |-> <<>>, err |-> ExtensionIDRequired]
    ELSE LET out == doRequest(mgr.client, ctx, "POST", SecretPath(mgr.extensionID, key),
                              [value |-> value], outcome)
         IN  [requests |-> out.requests, err |-> out.err]

\* secretManager.Delete
SecretManagerDelete(mgr, ctx, key, outcome) ==
    IF mgr.extensionID = "" THEN [requests |-> <<>>, err |-> ExtensionIDRequired]
    ELSE LET out == doRequest(mgr.client, ctx, "DELETE", SecretPath(mgr.extensionID, key),
                              <<>>, outcome)
         IN  [requests |-> out.requests, err |-> out.err]

\* secretManager.Rotate: Delete, and Set when Delete returned no error
Rotate(mgr, ctx, key, newValue, deleteOutcome, setOutcome) ==
    LET deleted == SecretManagerDelete(mgr, ctx, key, deleteOutcome)
        set     == SecretManagerSet(mgr, ctx, key, newValue, setOutcome)
    IN  IF deleted.err # NoError THEN deleted
        ELSE [requests |-> deleted.requests \o set.requests, err |-> set.err]

\* the service carries out a request exactly when it answers it with a
\* status of success, whether or not the answer can be read
Applied(outcome) ==
    outcome.kind \in {"response", "unreadable"} /\ outcome.status \in 200..299

\* the secrets the service stores after the requests of a call, each with
\* what became of it
RECURSIVE StoreAfter(_, _, _, _)
StoreAfter(store, extensionID, requests, outcomes) ==
    IF requests = <<>> THEN store
    ELSE LET r   == Head(requests)
             key == CHOOSE k \in DOMAIN store : r.path = SecretPath(extensionID, k)
             new == IF ~Applied(Head(outcomes)) THEN store
                    ELSE IF r.method = "DELETE" THEN [store EXCEPT ![key] = NoEntry]
                    ELSE [store EXCEPT ![key] = MapEntry(r.body.value)]
         IN  StoreAfter(new, extensionID, Tail(requests), Tail(outcomes))

\* the values a payload carries for a secret, and the environment holds
PayloadValues == {"", "payload-value"}

EnvValues == {"", "env-value"}

\* the payloadSecrets of the contexts handlers are given
PayloadSecretsChoices ==
    {NilPayloadSecrets} \cup
    {PayloadSecrets(m) :
        m \in [SecretNames -> {NoEntry} \cup {MapEntry(v) : v \in PayloadValues}]}

\* the process environment: a variable that is not set reads as ""
Environments == [SecretNames -> EnvValues]

InitSecrets ==
    /\ now = Epoch
    /\ config \in {[WebhookSecret |-> "", env |-> env,
                     secrets |-> NewSecretManager(NewHTTPClient(NoTimeoutOption), id)] :
                       env \in Environments, id \in {"", "ext-1"}}
    /\ fixture = NoFixture
    /\ handlers = <<>>
    /\ call = [op |-> "none"]
    /\ threads = NoThreads
    /\ handlersMu = Unlocked
    /\ service \in [SecretNames -> {NoEntry, MapEntry("old-value")}]

\* a handler asks its context for a secret
SecretLookup ==
    /\ Idle
    /\ \E payloadSecrets \in PayloadSecretsChoices, key \in SecretNames :
           /\ call' = [op |-> "Secret", payloadSecrets |-> payloadSecrets, key |-> key,
                       result |-> Secret(payloadSecrets, config.env, key)]
           /\ UNCHANGED <<now, config, fixture, handlers, threads, handlersMu, service>>

\* what the network does with a request of the secret manager
SecretAnswers ==
    {Response(status, <<"{", "}">>) : status \in {200, 300, 500}}
        \cup {TransportError, UnreadableAnswer(200)}

\* a handler rotates a secret: both requests of Rotate, if it sends both,
\* and the secrets of the service after them
RotateSecret ==
    /\ Idle
    /\ \E key \in SecretNames, deleteOutcome \in SecretAnswers,
          setOutcome \in SecretAnswers :
           LET out == Rotate(config.secrets, Background, key, "rotated-value",
                             deleteOutcome, setOutcome)
           IN  /\ call' = [op |-> "Rotate", key |-> key, newValue |-> "rotated-value",
                           deleteOutcome |-> deleteOutcome, setOutcome |-> setOutcome,
                           requests |-> out.requests, err |-> out.err,
                           before |-> service]
               /\ service' = StoreAfter(service, config.secrets.extensionID, out.requests,
                                        <<deleteOutcome, setOutcome>>)
    /\ UNCHANGED <<now, config, fixture, handlers, threads, handlersMu>>

NextSecrets == SecretLookup \/ RotateSecret \/ Return

SpecSecrets == InitSecrets /\ [][NextSecrets]_vars

----------------------------------------------------------------------------
(* The handler registry under concurrent calls.  On, GetHandler and        *)
(* EventNames run in threads, in the steps of their code: the lock taken,  *)
(* the map written or read, the lock released.  The assignment to the map  *)
(* takes two steps, and a read of the map between them is a data race.     *)

\* handlersMu.Lock() returns when no writer and no reader holds the lock
CanLock(mu) == mu.writer = 0 /\ mu.readers = {}

\* a reader that does not wait for the writer
CanRLockBesideWriter(mu) == TRUE

\* handlersMu.RLock() returns when no writer holds the lock
CanRLock(mu) == mu.writer = 0

\* what a read of the map gives while another thread assigns to it: the
\* runtime stops the program ("concurrent map read and map write")
FatalRace == [Event |-> "", Version |-> "", Handler |-> "fatal error"]

\* a thread is in the middle of its assignment to the map
MidWrite(ts) == \E u \in DOMAIN ts : ts[u].op = "On" /\ ts[u].pc = "store"

\* the events and versions handlers are registered for and looked up by:
\* an event with no version given (which stands for "v1") and with a
\* version, and an event whose name holds a colon
RegistryPairs ==
    {[event |-> "a", versions |-> <<>>], [event |-> "a", versions |-> <<"b:v1">>],
     [event |-> "a:b", versions |-> <<>>]}

VersionOfArgs(versions) == IF Len(versions) > 0 THEN versions[1] ELSE "v1"

\* the calls of the registry
RegistryCalls ==
    {[op |-> "On", input |-> [event |-> p.event, handler |-> "h1",
                              versions |-> p.versions]] : p \in RegistryPairs}
    \cup {[op |-> "On", input |-> [event |-> "a", handler |-> "h2", versions |-> <<>>]]}
    \cup {[op |-> "GetHandler",
           input |-> [event |-> p.event, version |-> VersionOfArgs(p.versions)]] :
              p \in RegistryPairs}
    \cup {[op |-> "EventNames", input |-> <<>>]}

InitRegistry ==
    /\ now = Epoch
    /\ config = [WebhookSecret |-> "s3cr3t"]
    /\ fixture = NoFixture
    /\ handlers = <<>>
    /\ call = [op |-> "none"]
    /\ threads = [t \in ThreadIds |-> BlankThread]
    /\ handlersMu = Unlocked
    /\ service = NoService

\* the registrations under way: stored, or about to be
Registering ==
    Cardinality(DOMAIN handlers)
        + Cardinality({t \in ThreadIds : threads[t].op = "On"
                                          /\ threads[t].pc \in {"begin", "assign", "store"}})

\* thread t calls a method of the registry
CallRegistry(t) ==
    /\ threads[t].pc = "idle"
    /\ \E c \in RegistryCalls :
           /\ c.op = "On" => Registering < MaxHandlers
           /\ threads' = [threads EXCEPT
                             ![t] = [BlankThread EXCEPT !.pc = "begin", !.op = c.op,
                                                        !.input = c.input]]
    /\ UNCHANGED <<now, config, fixture, handlers, call, handlersMu, service>>

\* thread t takes a step of On: Lock, the assignment begun, the entry
\* stored, Unlock
StepOn(t) ==
    LET th == threads[t]
    IN  /\ Running(t, "On")
        /\ CASE th.pc = "begin" ->
                    /\ CanLock(handlersMu)
                    /\ handlersMu' = [handlersMu EXCEPT !.writer = t]
                    /\ threads' = [threads EXCEPT ![t].pc = "assign"]
                    /\ UNCHANGED handlers
             [] th.pc = "assign" ->
                    /\ threads' = [threads EXCEPT ![t].pc = "store"]
                    /\ UNCHANGED <<handlers, handlersMu>>
             [] th.pc = "store" ->
                    /\ handlers' = On(handlers, th.input.event, th.input.handler,
                                      th.input.versions)
                    /\ threads' = [threads EXCEPT ![t].pc = "unlock"]
                    /\ UNCHANGED handlersMu
             [] th.pc = "unlock" ->
                    /\ handlersMu' = [handlersMu EXCEPT !.writer = 0]
                    /\ threads' = [threads EXCEPT ![t].pc = "done"]
                    /\ UNCHANGED handlers
        /\ UNCHANGED <<now, config, fixture, call, service>>

\* thread t takes a step of GetHandler: RLock, the map read, RUnlock
StepGetHandler(t) ==
    LET th == threads[t]
    IN  /\ Running(t, "GetHandler")
        /\ CASE th.pc = "begin" ->
                    /\ CanRLock(handlersMu)
                    /\ handlersMu' = [handlersMu EXCEPT !.readers = @ \cup {t}]
                    /\ threads' = [threads EXCEPT ![t].pc = "read"]
             [] th.pc = "read" ->
                    /\ threads' = [threads EXCEPT
                          ![t].pc = "unlock",
                          ![t].result = IF MidWrite(threads) THEN FatalRace
                                        ELSE GetHandler(handlers, th.input.event,
                                                        th.input.version)]
                    /\ UNCHANGED handlersMu
             [] th.pc = "unlock" ->
                    /\ handlersMu' = [handlersMu EXCEPT !.readers = @ \ {t}]
                    /\ threads' = [threads EXCEPT ![t].pc = "done"]
        /\ UNCHANGED <<now, config, fixture, handlers, call, service>>

\* the names EventNames collects from the entries of the map, ranged over
\* in that order
RECURSIVE CollectNames(_, _, _)
CollectNames(registry, order, names) ==
    IF order = <<>> THEN names
    ELSE LET h == registry[Head(order)]
         IN  CollectNames(registry, Tail(order),
                          IF \E i \in 1..Len(names) : names[i] = h.Event THEN names
                          ELSE Append(names, h.Event))

\* thread t takes a step of EventNames: RLock, the map ranged over (in any
\* order), RUnlock
StepEventNames(t) ==
    LET th == threads[t]
    IN  /\ Running(t, "EventNames")
        /\ CASE th.pc = "begin" ->
                    /\ CanRLock(handlersMu)
                    /\ handlersMu' = [handlersMu EXCEPT !.readers = @ \cup {t}]
                    /\ threads' = [threads EXCEPT ![t].pc = "range"]
             [] th.pc = "range" ->
                    /\ \E order \in Orders(DOMAIN handlers) :
                           threads' = [threads EXCEPT
                               ![t].pc = "unlock",
                               ![t].names = IF MidWrite(threads) THEN <<"fatal error">>
                                            ELSE CollectNames(handlers, order, <<>>)]
                    /\ UNCHANGED handlersMu
             [] th.pc = "unlock" ->
                    /\ handlersMu' = [handlersMu EXCEPT !.readers = @ \ {t}]
                    /\ threads' = [threads EXCEPT ![t].pc = "done"]
        /\ UNCHANGED <<now, config, fixture, handlers, call, service>>

NextRegistry ==
    \/ \E t \in ThreadIds : CallRegistry(t)
    \/ \E t \in ThreadIds : StepOn(t)
    \/ \E t \in ThreadIds : StepGetHandler(t)
    \/ \E t \in ThreadIds : StepEventNames(t)
    \/ \E t \in ThreadIds : Collect(t)

SpecRegistry == InitRegistry /\ [][NextRegistry]_vars

----------------------------------------------------------------------------
(* Properties of VerifySignature and GenerateSignature *)

Verified == call.op = "VerifySignature"

\* an entry of the request that is there and not ""
Entry(name) ==
    IF name \in DOMAIN call.headers /\ call.headers[name].mac # <<>> THEN call.headers[name]
    ELSE IF name \in DOMAIN call.headers /\ call.headers[name].lit # <<>>
    THEN call.headers[name]
    ELSE EmptyString

HasEntry(name) == Entry(name) # EmptyString

\* the signature and the timestamp the request carries
SentSignature ==
    IF HasEntry("X-Kiket-Signature") THEN Entry("X-Kiket-Signature")
    ELSE Entry("x-kiket-signature")

SentTimestamp ==
    IF HasEntry("X-Kiket-Timestamp") THEN Entry("X-Kiket-Timestamp")
    ELSE Entry("x-kiket-timestamp")

\* the six checks, each on the inputs of the call alone
FailsSecret == call.secret = ""

FailsSignaturePresent ==
    ~HasEntry("X-Kiket-Signature") /\ ~HasEntry("x-kiket-signature")

FailsTimestampPresent ==
    ~HasEntry("X-Kiket-Timestamp") /\ ~HasEntry("x-kiket-timestamp")

FailsTimestampSyntax == ~ParseInt(SentTimestamp).ok

\* the distance of the timestamp from the clock reading, in the integers
Distance ==
    LET d == call.clock - ParseInt(SentTimestamp).val IN IF d < 0 THEN 0 - d ELSE d

FailsFreshness == Distance > Window

FailsSignatureMatch ==
    SentSignature #
        [mac |-> <<call.secret, Lit(SentTimestamp.lit \o <<".">> \o call.body.lit)>>,
         lit |-> <<>>]

MsgSecret == "webhook secret not configured"
MsgNoSignature == "missing X-Kiket-Signature header"
MsgNoTimestamp == "missing X-Kiket-Timestamp header"
MsgBadTimestamp == "invalid X-Kiket-Timestamp header"
MsgTooOld == "request timestamp too old or too far in future: %.0fs"
MsgBadSignature == "invalid signature"

\* C1: VerifySignature checks, in this order, the secret, the signature
\* header, the timestamp header, the timestamp's syntax, the freshness and
\* the signature; the failure it returns is that of the first check that
\* fails, whatever later checks fail too, and it succeeds when none fails.
C1_FirstFailingCheckWins ==
    Verified =>
        call.err.Message =
            (CASE FailsSecret           -> MsgSecret
               [] FailsSignaturePresent -> MsgNoSignature
               [] FailsTimestampPresent -> MsgNoTimestamp
               [] FailsTimestampSyntax  -> MsgBadTimestamp
               [] FailsFreshness        -> MsgTooOld
               [] FailsSignatureMatch   -> MsgBadSignature
               [] OTHER                 -> "")

\* an empty secret, no signature and a malformed timestamp at once
C1_Witness ==
    /\ Verified
    /\ FailsSecret /\ FailsSignaturePresent
    /\ ~FailsTimestampPresent /\ FailsTimestampSyntax
    /\ call.err.Message = MsgSecret

\* the request carries what GenerateSignature returned, and is verified with
\* the secret and the body it was generated for
RoundTrip ==
    /\ Verified
    /\ fixture.set
    /\ call.secret = fixture.secret
    /\ call.body = fixture.body
    /\ SentSignature = fixture.signature
    /\ SentTimestamp = fixture.ts

\* the timestamp GenerateSignature signed
SignedAt == IF fixture.timestamp.set THEN fixture.timestamp.val ELSE fixture.at

InWindow(clock, t) == clock - t <= Window /\ t - clock <= Window

\* C2 as stated: a request built by GenerateSignature(S, B, T) verifies
\* under S and B, for every secret S, whenever T is within 300 seconds of
\* the verifier's clock reading; built with a nil timestamp it verifies as
\* long as the clock has advanced by at most 300 seconds since.
C2_GenerateThenVerifyAnySecret ==
    RoundTrip =>
        /\ InWindow(call.clock, SignedAt) => call.err = NoError
        /\ (~fixture.timestamp.set /\ call.clock - fixture.at <= Window)
               => call.err = NoError

\* C2 as amended: the same for every secret S that is not empty; under
\* the empty secret the request is refused as "webhook secret not
\* configured".
C2_GenerateThenVerify ==
    RoundTrip =>
        /\ (fixture.secret # "" /\ InWindow(call.clock, SignedAt))
               => call.err = NoError
        /\ (fixture.secret # "" /\ ~fixture.timestamp.set
                /\ call.clock - fixture.at <= Window)
               => call.err = NoError
        /\ fixture.secret = "" => call.err.Message = MsgSecret

\* built from the clock, verified exactly 300 seconds later
C2_Witness ==
    /\ RoundTrip
    /\ fixture.secret # ""
    /\ ~fixture.timestamp.set
    /\ call.clock = fixture.at + Window
    /\ call.err = NoError

\* the signature of the request is the one of its timestamp and body under
\* the verifier's secret
ValidlySigned ==
    /\ Verified
    /\ ~FailsSecret
    /\ ~FailsSignaturePresent /\ ~FailsTimestampPresent /\ ~FailsTimestampSyntax
    /\ ~FailsSignatureMatch

\* C3: a validly signed request is accepted exactly when its timestamp is
\* at most 300 seconds before or after the clock reading, both ends
\* included; further away it fails with the freshness failure.
C3_ClosedWindow ==
    ValidlySigned =>
        LET t == ParseInt(SentTimestamp).val
        IN  /\ call.err = NoError <=> InWindow(call.clock, t)
            /\ ~InWindow(call.clock, t) => call.err.Message = MsgTooOld

\* dated exactly 300 seconds ahead of the clock, and accepted
C3_Witness ==
    /\ ValidlySigned
    /\ ParseInt(SentTimestamp).val = call.clock + Window
    /\ call.err = NoError

\* the request GenerateSignature built is one the verifier accepts now
BuiltIsAccepted ==
    /\ Verified
    /\ fixture.set
    /\ fixture.secret # ""
    /\ InWindow(call.clock, SignedAt)
    /\ SentTimestamp = fixture.ts

BodyChanged == call.body # fixture.body

SecretChanged == call.secret # fixture.secret /\ call.secret # ""

\* the request still has a signature header, of another value
SignatureChanged ==
    /\ SentSignature # fixture.signature
    /\ \/ "X-Kiket-Signature" \in DOMAIN call.headers
       \/ "x-kiket-signature" \in DOMAIN call.headers

\* C4 as stated: when an accepted request is changed in its body alone, or
\* verified under another non-empty secret, or changed in its signature
\* value alone, the verifier fails with "invalid signature".
C4_TamperIsInvalidSignature ==
    BuiltIsAccepted =>
        /\ (BodyChanged /\ call.secret = fixture.secret
                /\ SentSignature = fixture.signature)
               => call.err.Message = MsgBadSignature
        /\ (SecretChanged /\ call.body = fixture.body
                /\ SentSignature = fixture.signature)
               => call.err.Message = MsgBadSignature
        /\ (SignatureChanged /\ call.body = fixture.body
                /\ call.secret = fixture.secret)
               => call.err.Message = MsgBadSignature

\* C4 as amended: the same, the signature changed to another value that is
\* not empty; a signature changed to the empty value fails as a missing
\* signature header.
C4_TamperNonEmptyIsInvalidSignature ==
    BuiltIsAccepted =>
        /\ (BodyChanged /\ call.secret = fixture.secret
                /\ SentSignature = fixture.signature)
               => call.err.Message = MsgBadSignature
        /\ (SecretChanged /\ call.body = fixture.body
                /\ SentSignature = fixture.signature)
               => call.err.Message = MsgBadSignature
        /\ (SignatureChanged /\ call.body = fixture.body
                /\ call.secret = fixture.secret)
               => call.err.Message =
                      (IF SentSignature = EmptyString THEN MsgNoSignature
                       ELSE MsgBadSignature)

\* the signature alone was changed, to a value that is not empty
C4_Witness ==
    /\ BuiltIsAccepted
    /\ SignatureChanged /\ SentSignature # EmptyString
    /\ call.body = fixture.body /\ call.secret = fixture.secret
    /\ call.err.Message = MsgBadSignature

\* the kind of failure a message of VerifySignature stands for
KindOf(msg) ==
    CASE msg = MsgSecret                                     -> "ConfigurationError"
      [] msg \in {MsgNoSignature, MsgNoTimestamp, MsgBadTimestamp} -> "ProtocolError"
      [] msg = MsgTooOld                                     -> "FreshnessError"
      [] msg = MsgBadSignature                               -> "IntegrityError"
      [] OTHER                                               -> "none"

\* the kind of the first check the request fails
FailedKind ==
    CASE FailsSecret -> "ConfigurationError"
      [] FailsSignaturePresent \/ FailsTimestampPresent \/ FailsTimestampSyntax
                     -> "ProtocolError"
      [] FailsFreshness -> "FreshnessError"
      [] FailsSignatureMatch -> "IntegrityError"
      [] OTHER -> "none"

Under(name) == IF name \in DOMAIN call.headers THEN call.headers[name] ELSE EmptyString

\* the signature of the request's timestamp and body under the secret
ExpectedFor(timestamp) ==
    [mac |-> <<call.secret, Lit(timestamp.lit \o <<".">> \o call.body.lit)>>, lit |-> <<>>]

\* C6: the signature and the timestamp are each taken from the canonical
\* header when that is non-empty and from the all-lowercase header
\* otherwise; the missing-header failure is returned exactly when both are
\* absent or empty.
C6_CanonicalThenLowercase ==
    (Verified /\ call.secret # "") =>
        LET sigC == Under("X-Kiket-Signature")
            sigL == Under("x-kiket-signature")
            tsC  == Under("X-Kiket-Timestamp")
            tsL  == Under("x-kiket-timestamp")
            sig  == IF sigC # EmptyString THEN sigC ELSE sigL
            ts   == IF tsC # EmptyString THEN tsC ELSE tsL
        IN  /\ call.err.Message = MsgNoSignature
                  <=> (sigC = EmptyString /\ sigL = EmptyString)
            /\ call.err.Message = MsgNoTimestamp
                  <=> (sig # EmptyString /\ tsC = EmptyString /\ tsL = EmptyString)
            /\ (sig # EmptyString /\ ts # EmptyString /\ ParseInt(ts).ok
                    /\ InWindow(call.clock, ParseInt(ts).val))
                  => (call.err = NoError <=> sig = ExpectedFor(ts))

\* an empty canonical signature and no canonical timestamp: the lowercase
\* entries are used and the request is accepted
C6_Witness ==
    /\ Verified
    /\ "X-Kiket-Signature" \in DOMAIN call.headers
    /\ call.headers["X-Kiket-Signature"] = EmptyString
    /\ "X-Kiket-Timestamp" \notin DOMAIN call.headers
    /\ HasEntry("x-kiket-signature") /\ HasEntry("x-kiket-timestamp")
    /\ call.err = NoError

----------------------------------------------------------------------------
(* Properties of HandleWebhook and ServeHTTP *)

Handled == call.op = "HandleWebhook"

\* the request passes every check of VerifySignature under the configured
\* secret
PassesVerification ==
    /\ ~FailsSecret
    /\ ~FailsSignaturePresent /\ ~FailsTimestampPresent /\ ~FailsTimestampSyntax
    /\ ~FailsFreshness /\ ~FailsSignatureMatch

\* C7: HandleWebhook invokes the registered handler at most once, and only
\* for a request that VerifySignature accepts under the configured secret;
\* when verification fails it returns the verification error, invokes no
\* handler and records no telemetry.
C7_HandlerOnlyAfterVerification ==
    Handled =>
        /\ call.secret = config.WebhookSecret
        /\ Len(call.invoked) <= 1
        /\ call.invoked # <<>> => PassesVerification
        /\ ~PassesVerification =>
              /\ call.err.type = "AuthenticationError"
              /\ KindOf(call.err.Message) = FailedKind
              /\ call.result = NilResult
              /\ call.invoked = <<>>
              /\ call.telemetry = <<>>

\* a request signed with another secret, for an event that has a handler
C7_Witness ==
    /\ Handled
    /\ ~FailsSecret /\ FailsSignatureMatch /\ ~FailsFreshness
    /\ GetHandler(handlers, EventOf(Unmarshal(call.body).payload),
                  VersionOf(call.headers)) # NilHandler
    /\ call.err.Message = MsgBadSignature
    /\ call.invoked = <<>>
    /\ call.telemetry = <<>>

Served == call.op = "ServeHTTP"

\* what HandleWebhook returns for the request ServeHTTP was given
ServedOutcome ==
    HandleWebhook(config, handlers, call.body, ConvertHeaders(call.header),
                  call.clock, call.outcome, "delivered")

\* the body of a 200 response: the JSON of the result, "{}" for nil
JSONOf(result) == IF result = NilResult THEN "{}" ELSE "json(" \o result \o ")"

\* C8 as stated: every request is answered 405 (method other than POST,
\* nothing verified or dispatched), 401 (HandleWebhook fails with an
\* authentication error), 500 (it fails with another error) or 200 with the
\* JSON of the result.
C8_FourStatuses ==
    Served =>
        LET hw == ServedOutcome
        IN  /\ call.response.status \in {405, 401, 500, 200}
            /\ call.method # "POST" <=> call.response.status = 405
            /\ call.method # "POST" => ~call.handled
            /\ call.method = "POST" =>
                  /\ call.response.status = 401
                        <=> (hw.err # NoError /\ IsAuthenticationError(hw.err))
                  /\ call.response.status = 500
                        <=> (hw.err # NoError /\ ~IsAuthenticationError(hw.err))
                  /\ call.response.status = 200 <=> hw.err = NoError
                  /\ call.response.status = 200
                        => call.response.body = JSONOf(hw.result)

\* C8 as amended: 405 for a method other than POST and 400 for a POST
\* whose body cannot be read, both without verifying or dispatching;
\* otherwise 401 when HandleWebhook fails with an authentication error,
\* 500 when it fails with another error, and 200 when it succeeds: with
\* the JSON of the result, "{}" for a nil result, and an empty body for a
\* result that has no JSON encoding.
C8_FiveStatuses ==
    Served =>
        LET hw == ServedOutcome
            st == call.response.status
        IN  /\ st \in {405, 400, 401, 500, 200}
            /\ call.method # "POST" <=> st = 405
            /\ (call.method = "POST" /\ ~call.readOK) <=> st = 400
            /\ st \in {405, 400} => (~call.handled /\ call.hw.invoked = <<>>)
            /\ (call.method = "POST" /\ call.readOK) =>
                  /\ call.handled /\ call.hw = hw
                  /\ st = 401 <=> (hw.err # NoError /\ IsAuthenticationError(hw.err))
                  /\ st = 500 <=> (hw.err # NoError /\ ~IsAuthenticationError(hw.err))
                  /\ st = 200 <=> hw.err = NoError
                  /\ st = 200 =>
                        call.response.body =
                            (IF hw.result = "chan" THEN "" ELSE JSONOf(hw.result))

\* a POST whose body cannot be read is answered 400
C8_Witness ==
    /\ Served
    /\ call.method = "POST" /\ ~call.readOK
    /\ call.response.status = 400
    /\ ~call.handled

----------------------------------------------------------------------------
(* Properties of VerifyProofLocally *)

VerifiedLocally == call.op = "VerifyProofLocally"

\* a hash that is the hex of one or more bytes, "0x" in front or not
WellFormed(h) ==
    LET body == IF Len(h) >= 2 /\ h[1] = "0" /\ h[2] = "x"
                THEN SubSeq(h, 3, Len(h)) ELSE h
    IN  /\ Len(body) > 0
        /\ Len(body) % 2 = 0
        /\ \A i \in 1..Len(body) : IsHex(body[i])

\* C9: VerifyProofLocally returns false whenever the content hash, a
\* sibling of the proof or the Merkle root is malformed (invalid
\* characters, odd length, or empty).
C9_MalformedIsFalse ==
    (/\ VerifiedLocally
     /\ \/ ~WellFormed(call.contentHash)
        \/ ~WellFormed(call.merkleRoot)
        \/ \E i \in 1..Len(call.proofPath) : ~WellFormed(call.proofPath[i]))
        => call.result = FALSE

\* the digest a well-formed hash stands for is that of the other
SameDigest(g, h) ==
    /\ WellFormed(g) /\ WellFormed(h)
    /\ LET strip(x) == IF x[1] = "0" /\ x[2] = "x" THEN SubSeq(x, 3, Len(x)) ELSE x
       IN  ToUpper(strip(g)) = ToUpper(strip(h))

OneLeaf ==
    /\ VerifiedLocally
    /\ call.proofPath = <<>>
    /\ call.leafIndex = 0
    /\ WellFormed(call.contentHash)

\* C10: for a one-leaf tree (empty proof, leaf index 0) the result is true
\* when the root is the leaf's hash and false for every other root: every
\* root that is not the hex of the same digest.
C10_OneLeafTree ==
    OneLeaf =>
        /\ call.merkleRoot = call.contentHash => call.result = TRUE
        /\ ~SameDigest(call.merkleRoot, call.contentHash) => call.result = FALSE

\* C10 on roots that are well-formed: there the result is true exactly
\* when root and leaf are the hex of the same digest
C10_OneLeafTreeWellFormedRoot ==
    (OneLeaf /\ WellFormed(call.merkleRoot)) =>
        (call.result <=> SameDigest(call.merkleRoot, call.contentHash))

\* the bytes a well-formed hash is the hex of
BytesOf(h) ==
    DecodeString(IF h[1] = "0" /\ h[2] = "x" THEN SubSeq(h, 3, Len(h)) ELSE h).bytes

\* SHA-256 of two byte strings concatenated in ascending byte order
SortedPair(a, b) == IF Greater(a, b) THEN Sha256(b \o a) ELSE Sha256(a \o b)

\* the sorted-pair combine folded over a proof, leaf to root
RECURSIVE FoldProof(_, _)
FoldProof(current, proof) ==
    IF proof = <<>> THEN current
    ELSE FoldProof(SortedPair(current, BytesOf(proof[1])), Tail(proof))

\* the root of the two-leaf tree of Leaf(i) and Leaf(j)
TwoLeafRoot(i, j) == HashString(SortedPair(BytesOf(Leaf(i)), BytesOf(Leaf(j))))

\* a leaf of the two-leaf tree of Leaf(i) and Leaf(j) is checked against
\* the root of that tree, with a proof of one sibling
TwoLeaf(i, j) ==
    /\ VerifiedLocally
    /\ i # j
    /\ call.contentHash = Leaf(i)
    /\ Len(call.proofPath) = 1
    /\ call.leafIndex \in {0, 1}
    /\ call.merkleRoot = TwoLeafRoot(i, j)

AllWellFormed ==
    /\ WellFormed(call.contentHash)
    /\ WellFormed(call.merkleRoot)
    /\ \A k \in 1..Len(call.proofPath) : WellFormed(call.proofPath[k])

\* C11: in the two-leaf tree of L0 and L1, whose root is the SHA-256 of the
\* leaves in ascending byte order, a leaf verifies with the other leaf as
\* its proof, and with any other sibling (anything that is not the hex of
\* the other leaf's digest) it does not; on well-formed hashes the result
\* is true exactly when the sorted-pair fold of the proof from the content
\* hash is the root.
C11_TwoLeafTree ==
    /\ \A i, j \in 1..NumLeaves :
          TwoLeaf(i, j) =>
              /\ call.proofPath[1] = Leaf(j) => call.result = TRUE
              /\ ~SameDigest(call.proofPath[1], Leaf(j)) => call.result = FALSE
    /\ (VerifiedLocally /\ AllWellFormed) =>
          (call.result <=>
              FoldProof(BytesOf(call.contentHash), call.proofPath)
                  = BytesOf(call.merkleRoot))

\* C11 on well-formed hashes: there it holds
C11_TwoLeafTreeWellFormed ==
    /\ \A i, j \in 1..NumLeaves :
          (TwoLeaf(i, j) /\ WellFormed(call.proofPath[1])) =>
              (call.result <=> SameDigest(call.proofPath[1], Leaf(j)))
    /\ (VerifiedLocally /\ AllWellFormed) =>
          (call.result <=>
              FoldProof(BytesOf(call.contentHash), call.proofPath)
                  = BytesOf(call.merkleRoot))

\* a leaf of a two-leaf tree verified with a sibling other than its own
C11_OtherSiblingSeen ==
    \E i, j \in 1..NumLeaves :
        /\ TwoLeaf(i, j) /\ WellFormed(call.proofPath[1])
        /\ ~SameDigest(call.proofPath[1], Leaf(j)) /\ call.result = FALSE

\* C12: hashPair(a, b) = hashPair(b, a) for all byte strings, and
\* VerifyProofLocally returns the same boolean for every leaf index.
C12_LeafIndexHasNoEffect ==
    /\ call.op = "hashPair" => call.result = hashPair(call.right, call.left)
    /\ VerifiedLocally =>
          \A leafIndex \in LeafIndexes :
              VerifyProofLocally(call.contentHash, call.proofPath, leafIndex,
                                 call.merkleRoot) = call.result

\* a proof of two siblings verifies at an odd leaf index
C12_Witness ==
    /\ VerifiedLocally
    /\ Len(call.proofPath) = 2
    /\ call.proofPath[1] # call.proofPath[2]
    /\ GoRem(call.leafIndex, 2) # 0
    /\ call.result = TRUE

\* the assignments of a record in another order
Reordered(insertions) ==
    {[i \in 1..Len(insertions) |-> insertions[o[i]]] : o \in Orders(1..Len(insertions))}

\* C13: two records with the same top-level key/value pairs, built by
\* inserting the keys in any order, have the same content hash.
C13_KeyOrderInvariant ==
    call.op = "ComputeContentHash" =>
        \A other \in Reordered(call.insertions) :
            \A rangeOrder \in Orders(DOMAIN BuildMap(other)) :
                ComputeContentHash(BuildMap(other), rangeOrder) = call.result

\* a record of three members built and ranged over out of key order
C13_Witness ==
    /\ call.op = "ComputeContentHash"
    /\ Len(call.insertions) = 3
    /\ Greater(call.insertions[1][1], call.insertions[2][1])
    /\ call.rangeOrder # SortStrings(call.rangeOrder)
    /\ Marshal(call.data).ok

----------------------------------------------------------------------------
(* Properties of the audit client *)

AuditReturned(method) ==
    call.op = "AuditClient" /\ call.state = "returned" /\ call.method = method

\* response bodies that are no JSON of the result: no JSON at all, nothing,
\* or a string where a boolean belongs
Unparseable == {<<"<html>">>, <<>>, <<"{", VerifiedName, ":", "\"yes\"", "}">>}

\* the call returned an error and no result
OnlyError == call.err # NoError /\ call.result.nil

\* the request got no response that could be read
NoResponse == call.outcome.kind \in {"error", "timeout", "unreadable"}

\* C14: a Verify call sends at most one request; when the request fails
\* (no response, or a response that is not a success, that is, whose
\* status is not 2xx) Verify returns the error and no result, and when the
\* response cannot be parsed it returns an error and no result.
C14_OneRequestFailureSurfaced ==
    AuditReturned("Verify") =>
        /\ Len(call.requests) <= 1
        /\ (NoResponse \/ call.outcome.status \notin 200..299) => OnlyError
        /\ call.outcome.body \in Unparseable => OnlyError

\* C14 as amended: the responses taken for failures are those with a
\* status of 400 or more; a response with a lower status is parsed.
C14_OneRequestFailureAt400 ==
    AuditReturned("Verify") =>
        /\ Len(call.requests) <= 1
        /\ (NoResponse \/ call.outcome.status >= 400) => OnlyError
        /\ (~NoResponse /\ call.outcome.status < 400) =>
              IF call.outcome.body \in Unparseable
              THEN OnlyError /\ call.err = ResponseParseError
              ELSE call.err = NoError /\ ~call.result.nil

\* a Verify call whose one request was answered with status 500
C14_Witness ==
    /\ AuditReturned("Verify")
    /\ call.outcome.kind = "response" /\ call.outcome.status = 500
    /\ Len(call.requests) = 1
    /\ call.err = APIError(500)

\* the response body gives the flag of that name as true
SaidTrue(body, name) ==
    \E i \in 1..Len(body) : body[i] = name /\ i + 2 <= Len(body) /\ body[i + 2] = "true"

\* what VerifyProofLocally makes of the proof given to Verify
LocalVerdict ==
    VerifyProofLocally(call.input.ContentHash, call.input.Proof, call.input.LeafIndex,
                       call.input.MerkleRoot)

\* C15: the verified, proof_valid and blockchain_verified flags Verify
\* returns are those of the service's response, whatever a local check of
\* the same proof gives.
C15_ServiceJudgmentUnchanged ==
    (AuditReturned("Verify") /\ call.err = NoError) =>
        /\ call.result.Verified = SaidTrue(call.outcome.body, VerifiedName)
        /\ call.result.ProofValid = SaidTrue(call.outcome.body, ProofValidName)
        /\ call.result.BlockchainVerified
              = SaidTrue(call.outcome.body, BlockchainVerifiedName)

\* the service finds valid a proof that does not verify locally
C15_Witness ==
    /\ AuditReturned("Verify")
    /\ call.err = NoError
    /\ call.result.Verified /\ call.result.ProofValid
    /\ ~LocalVerdict

\* the service rejects a proof that verifies locally
C15_WitnessRejected ==
    /\ AuditReturned("Verify")
    /\ call.err = NoError
    /\ ~call.result.Verified /\ ~call.result.ProofValid
    /\ LocalVerdict

\* C16: a call of the audit client (Verify, ListAnchors, GetAnchor,
\* GetProof) takes the caller's deadline and does not outlast it, and
\* without one it returns within the default timeout, even when the audit
\* service never answers.
C16_CallerDeadlineKept ==
    call.op = "AuditClient" =>
        /\ call.deadline.set => call.elapsed <= call.deadline.at
        /\ ~call.deadline.set => call.elapsed <= defaultTimeout

\* what holds of C16: no call outlasts the timeout of its HTTP client
C16_ClientTimeoutKept ==
    call.op = "AuditClient" => call.elapsed <= config.client.Timeout

\* the query of the one request a ListAnchors call sent carries the
\* parameters its options ask for
QueryAsAsked ==
    LET q == call.requests[1].path.query
        o == call.input
    IN  /\ Len(call.requests) = 1
        /\ call.requests[1].method = "GET"
        /\ call.requests[1].path.path = "/api/v1/audit/anchors"
        /\ DOMAIN q \subseteq {"page", "per_page", "status", "network", "from", "to"}
        /\ "page" \in DOMAIN q
        /\ ParseInt(q["page"]) = [ok |-> TRUE, val |-> IF o.Page > 0 THEN o.Page ELSE 1]
        /\ "per_page" \in DOMAIN q
        /\ ParseInt(q["per_page"])
              = [ok |-> TRUE, val |-> IF o.PerPage > 0 THEN o.PerPage ELSE 25]
        /\ ("status" \in DOMAIN q) <=> (o.Status # "")
        /\ "status" \in DOMAIN q => q["status"] = Lit(<<o.Status>>)
        /\ ("network" \in DOMAIN q) <=> (o.Network # "")
        /\ "network" \in DOMAIN q => q["network"] = Lit(<<o.Network>>)
        /\ ("from" \in DOMAIN q) <=> o.From.set
        /\ ("to" \in DOMAIN q) <=> o.To.set
        /\ ("from" \in DOMAIN q /\ "to" \in DOMAIN q /\ o.From # o.To)
              => q["from"] # q["to"]

----------------------------------------------------------------------------
(* Properties of the telemetry reporter *)

Reported == call.op = "HandleWebhook" /\ call.invoked # <<>>

\* C19: HandleWebhook returns the result and the error its handler
\* returned, whether the telemetry request is delivered, fails or is not
\* sent, and Record returns nil when the transport of its request fails.
C19_TelemetryFailureIsSwallowed ==
    /\ Reported => call.result = call.outcome.result /\ call.err = call.outcome.err
    /\ (call.op = "Record" /\ call.requests # <<>> /\ call.transport = "failed")
          => call.err = NoError

\* a handler's result returned though the telemetry request failed
C19_Witness ==
    /\ Reported
    /\ call.requests # <<>>
    /\ call.transport = "failed"
    /\ call.result = "value" /\ call.err = NoError

\* a call that may send telemetry
MayReport == call.op \in {"Record", "HandleWebhook"}

\* C20: with KIKET_SDK_TELEMETRY_OPTOUT "1" when the reporter was built,
\* no later Record sends a request, whatever Config.TelemetryEnabled is;
\* nor is one sent when the configuration disables telemetry or names no
\* endpoint.
C20_OptOutDisablesTelemetry ==
    (/\ MayReport
     /\ \/ config.optOutAtNew = "1"
        \/ ~config.TelemetryEnabled
        \/ config.TelemetryURL = NoURL)
        => call.requests = <<>>

\* Record sends nothing for an SDK built opted out with telemetry enabled
\* and an endpoint, the variable having been unset since
C20_Witness ==
    /\ call.op = "Record"
    /\ config.optOutAtNew = "1" /\ config.optOut = ""
    /\ config.TelemetryEnabled
    /\ config.TelemetryURL = <<"https://t.example">>
    /\ call.requests = <<>>

\* telemetry is sent when nothing disables it
C20_TelemetrySent ==
    /\ call.op = "Record"
    /\ config.optOutAtNew = "TRUE"
    /\ call.requests # <<>>
    /\ call.requests[1].url = <<"https://t.example", "/telemetry">>

----------------------------------------------------------------------------
(* Properties of concurrent calls *)

\* what the call of a thread returns when it runs alone, on the thread's
\* input and, for VerifySignature, with the thread's reading of the clock
AsAlone(th) ==
    CASE th.op = "VerifySignature" ->
             th.err = VerifySignature(th.input.secret, th.input.body, th.input.headers,
                                      th.clock)
      [] th.op = "VerifyProofLocally" ->
             th.verified = VerifyProofLocally(th.input.contentHash, th.input.proofPath,
                                              th.input.leafIndex, th.input.merkleRoot)
      [] th.op = "ComputeContentHash" ->
             th.hash = ComputeContentHash(th.input.data, th.input.rangeOrder)

\* C17: under every interleaving of concurrent VerifySignature,
\* ComputeContentHash and VerifyProofLocally calls, each call returns what
\* it returns when run alone on its inputs (and its own clock reading).
C17_ConcurrentCallsIndependent ==
    \A t \in ThreadIds : threads[t].pc = "done" => AsAlone(threads[t])

\* a signature verified with a clock reading older than the clock, beside
\* a proof verified in another thread
C17_Witness ==
    /\ threads[1].pc = "done" /\ threads[1].op = "VerifyProofLocally"
    /\ threads[1].verified
    /\ threads[2].pc = "done" /\ threads[2].op = "VerifySignature"
    /\ threads[2].err = NoError
    /\ threads[2].clock < now

(* Properties of HandlerContext.Secret *)

\* the payload of the call carries a value for the key, and it is not empty
Carried ==
    /\ ~call.payloadSecrets.nil
    /\ call.payloadSecrets.m[call.key].has
    /\ call.payloadSecrets.m[call.key].value # ""

\* C21: Secret(key) returns the payload's value for the key when that is
\* not empty; otherwise (payload secrets nil, key absent, value empty) the
\* value of the environment variable of that name; and "" when neither
\* source has a value that is not empty.
C21_PayloadThenEnvironment ==
    call.op = "Secret" =>
        /\ Carried => call.result = call.payloadSecrets.m[call.key].value
        /\ ~Carried => call.result = config.env[call.key]
        /\ (~Carried /\ config.env[call.key] = "") => call.result = ""
        /\ call.result = "" => ~Carried /\ config.env[call.key] = ""

\* the payload has the key with an empty value and the environment's value
\* is returned
C21_Witness ==
    /\ call.op = "Secret"
    /\ ~call.payloadSecrets.nil
    /\ call.payloadSecrets.m[call.key] = MapEntry("")
    /\ config.env[call.key] = "env-value"
    /\ call.result = "env-value"

\* the payload's value is returned though the environment has one too
C21_PayloadTakesPriority ==
    /\ call.op = "Secret"
    /\ Carried
    /\ config.env[call.key] = "env-value"
    /\ call.result = "payload-value"

(* Properties of the handler registry *)

\* the version of a registered or looked-up pair
PairVersion(p) == VersionOfArgs(p.versions)

\* the threads that store their registration of the pair in this step
Storing(p) ==
    {t \in ThreadIds :
        /\ threads[t].op = "On" /\ threads[t].pc = "store"
        /\ threads'[t].pc = "unlock"
        /\ threads[t].input.event = p.event
        /\ VersionOfArgs(threads[t].input.versions) = PairVersion(p)}

\* what GetHandler returns for the pair changes only when On stores a
\* registration of that pair, and then to that registration
FollowsOn(p) ==
    IF Storing(p) # {}
    THEN \E t \in Storing(p) :
             GetHandler(handlers', p.event, PairVersion(p))
                 = [Event |-> p.event, Version |-> PairVersion(p),
                    Handler |-> threads[t].input.handler]
    ELSE GetHandler(handlers', p.event, PairVersion(p))
             = GetHandler(handlers, p.event, PairVersion(p))

\* C22: after any sequence of On calls GetHandler(e, v) returns the handler
\* of the most recent On call with event e and version v (no version
\* counting as "v1") and nil when there was none; a later registration of
\* the same event and version replaces the earlier one and leaves every
\* other registration as it was.
C22_MostRecentOn ==
    /\ \A p \in RegistryPairs : GetHandler(handlers, p.event, PairVersion(p)) = NilHandler
    /\ [][\A p \in RegistryPairs : FollowsOn(p)]_vars

\* the same of the pairs whose key no other pair shares
C22_MostRecentOnOfPlainKey ==
    [][FollowsOn([event |-> "a", versions |-> <<>>])]_vars

\* C23: distinct (event, version) pairs never share a slot of the
\* registry: GetHandler(e, v) returns a handler only if On was called with
\* exactly event e and version v, also when names hold a colon.
C23_NoSharedSlot ==
    \A p \in RegistryPairs :
        LET h == GetHandler(handlers, p.event, PairVersion(p))
        IN  h # NilHandler => h.Event = p.event /\ h.Version = PairVersion(p)

\* a thread is between Lock and Unlock
InWrite(t) == threads[t].op = "On" /\ threads[t].pc \in {"assign", "store", "unlock"}

\* a thread is between RLock and RUnlock
InRead(t) ==
    /\ threads[t].op \in {"GetHandler", "EventNames"}
    /\ threads[t].pc \in {"read", "range", "unlock"}

\* the key of the registration a thread makes
KeyOf(th) == HandlerKey(th.input.event, VersionOfArgs(th.input.versions))

NoDuplicates(seq) == \A i, j \in 1..Len(seq) : i # j => seq[i] # seq[j]

C24_TwoVersionsOneName ==
    \E t \in ThreadIds :
        /\ threads[t].op = "EventNames" /\ threads[t].pc = "unlock"
        /\ threads[t].names = <<"a">>
        /\ Cardinality(DOMAIN handlers) = 2

\* two readers hold the lock at once
C24_ReadersShare ==
    \E t, u \in ThreadIds : t # u /\ InRead(t) /\ InRead(u)

(* Properties of the order of HandleWebhook's steps *)

\* the step of HandleWebhook that fails on the request of the call, 0 when
\* the handler is reached
FailingStep ==
    IF ~PassesVerification THEN 1
    ELSE IF ~Unmarshal(call.body).ok THEN 2
    ELSE IF GetHandler(handlers, EventOf(Unmarshal(call.body).payload),
                       VersionOf(call.headers)) = NilHandler THEN 3
    ELSE 0

\* C25: HandleWebhook verifies the signature, parses the payload, looks up
\* the handler, invokes it and records telemetry, in that order, and stops
\* at the first of the first three that fails: telemetry is recorded once
\* per invocation of the handler, after it, with status "ok" exactly when
\* the handler returned no error and "error" otherwise, and never when
\* verification, parsing or lookup failed.
C25_StepsInOrder ==
    Handled =>
        /\ FailingStep # 0 =>
               /\ call.steps = SubSeq(<<"verify", "parse", "lookup">>, 1, FailingStep)
               /\ call.err # NoError
               /\ call.invoked = <<>>
               /\ call.telemetry = <<>>
        /\ FailingStep = 0 =>
               /\ call.steps = <<"verify", "parse", "lookup", "invoke", "record">>
               /\ Len(call.invoked) = 1
               /\ Len(call.telemetry) = 1
               /\ call.telemetry[1].status \in {"ok", "error"}
               /\ call.telemetry[1].status = "ok" <=> call.outcome.err = NoError
               /\ call.err = call.outcome.err

\* the handler ran and failed, and one record with status "error" follows
C25_Witness ==
    /\ Handled
    /\ call.steps = <<"verify", "parse", "lookup", "invoke", "record">>
    /\ call.outcome.err = HandlerFailed
    /\ Len(call.telemetry) = 1
    /\ call.telemetry[1].status = "error"

\* a verified, well-formed request for an event without a handler
C25_NoHandlerNoTelemetry ==
    /\ Handled
    /\ FailingStep = 3
    /\ call.telemetry = <<>>

(* Properties of Secrets.Rotate *)

Rotated == call.op = "Rotate"

\* the request was answered with a status of success and the answer read
Succeeded(outcome) == outcome.kind = "response" /\ outcome.status \in 200..299

\* the Delete of the call succeeded; without an extension ID it is not sent
DeleteSucceeded == config.secrets.extensionID # "" /\ Succeeded(call.deleteOutcome)

DeleteRequest ==
    [method |-> "DELETE", baseURL |-> config.secrets.client.baseURL,
     path |-> SecretPath(config.secrets.extensionID, call.key), body |-> <<>>]

SetRequest ==
    [method |-> "POST", baseURL |-> config.secrets.client.baseURL,
     path |-> SecretPath(config.secrets.extensionID, call.key),
     body |-> [value |-> call.newValue]]

\* what the claim says of a call of Rotate
RotateAsClaimed ==
    /\ config.secrets.extensionID # "" => call.requests[1] = DeleteRequest
    /\ ~DeleteSucceeded =>
           /\ Len(call.requests) <= 1
           /\ call.err # NoError
           /\ service = call.before
    /\ DeleteSucceeded => call.requests = <<DeleteRequest, SetRequest>>
    /\ (DeleteSucceeded /\ ~Succeeded(call.setOutcome)) =>
           /\ call.err # NoError
           /\ service[call.key] = NoEntry
    /\ (DeleteSucceeded /\ Succeeded(call.setOutcome)) =>
           /\ call.err = NoError
           /\ service[call.key] = MapEntry(call.newValue)

\* C26: Rotate(key, newValue) issues a Delete request for the key and
\* then, only if that Delete succeeded, a Set request with newValue; it
\* returns the first error it meets, so when Delete fails no Set is sent
\* and the stored value is untouched, and when Delete succeeds but Set
\* fails the key is left with no value.
C26_RotateDeleteThenSet == Rotated => RotateAsClaimed

\* an answer that is a success or a failure for the service and the client
\* alike: a readable answer with a status of success or of 400 and above,
\* or no connection at all
Clear(outcome) ==
    \/ outcome.kind = "error"
    \/ outcome.kind = "response" /\ (outcome.status \in 200..299 \/ outcome.status >= 400)

\* the same when both requests get a clear answer
C26_RotateOnClearAnswers ==
    (Rotated /\ Clear(call.deleteOutcome) /\ Clear(call.setOutcome)) => RotateAsClaimed

\* the Delete is answered with status 300 and the Set is sent
C26_SetAfterUnsuccessfulDelete ==
    /\ Rotated
    /\ call.deleteOutcome.kind = "response" /\ call.deleteOutcome.status = 300
    /\ Len(call.requests) = 2

\* the Delete succeeds, the Set fails, and the old value is gone
C26_LeftWithoutValue ==
    /\ Rotated
    /\ call.before[call.key] = MapEntry("old-value")
    /\ DeleteSucceeded /\ call.setOutcome.status = 500
    /\ call.err = APIError(500)
    /\ service[call.key] = NoEntry

(* Properties of the freshness check at the ends of the integer range *)

\* the call reached the freshness check: its timestamp parsed as an integer
ReachedFreshness ==
    /\ Verified
    /\ ~FailsSecret /\ ~FailsSignaturePresent /\ ~FailsTimestampPresent
    /\ ~FailsTimestampSyntax

\* C27: for every timestamp that parses as a signed 64-bit integer, those
\* near the ends of the range included, VerifySignature passes the
\* freshness check exactly when the true |now - timestamp| is at most 300,
\* and the difference it reports in the freshness failure is that absolute
\* difference in seconds.
C27_FreshnessAtRangeEnds ==
    ReachedFreshness =>
        /\ call.err.Message = MsgTooOld <=> Distance > Window
        /\ call.err.Message = MsgTooOld => call.err.arg = Distance

\* the decision alone: the check fails exactly when the true distance
\* exceeds the window
C27_FreshnessDecision ==
    ReachedFreshness => (call.err.Message = MsgTooOld <=> Distance > Window)

\* the subtraction wraps around and a difference that is not the distance
\* is reported
C27_WrappedDifference ==
    /\ ReachedFreshness
    /\ ParseInt(SentTimestamp).val = MinInt
    /\ call.err.Message = MsgTooOld
    /\ call.err.arg = Float64((2 ^ IntBits) - Distance)

\* the subtraction does not wrap and the difference is rounded
C27_RoundedDifference ==
    /\ ReachedFreshness
    /\ ParseInt(SentTimestamp).val = MaxInt
    /\ call.err.Message = MsgTooOld
    /\ call.err.arg = Float64(Distance)
    /\ call.err.arg # Distance

====
